---- MODULE Spec2Model ----
(***************************************************************************)
(* Case status classification and aggregation of the GIDAS Explorer        *)
(* backend (src/backend/api): the per-category dashboard statistics, the   *)
(* enforcement-order (paabud) statistics and the monthly trend.            *)
(*                                                                         *)
(* The handlers are SQL queries over the AMOSagsbehandling table.  Every   *)
(* column the queries read is nullable, so the filters are evaluated in    *)
(* SQL's three-valued logic: a comparison with NULL is UNKNOWN and a row   *)
(* is selected only when its filter is TRUE.                               *)
(*                                                                         *)
(* Identifiers are the source's, with ae/oe/aa for the Danish letters.     *)
(***************************************************************************)
EXTENDS Integers, Sequences, FiniteSets, TLC

VARIABLES sager, resp, projekter, projekttyper, anmodninger, haendelser, cache, clock,
          klient

vars == <<sager, resp, projekter, projekttyper, anmodninger, haendelser, cache, clock,
         klient>>

(* The tables and requests the case statistics neither read nor write. *)
projekt_tabeller == <<projekter, projekttyper, anmodninger>>

(* The events table (AMOHaendelser), the server's response cache, the     *)
(* time in seconds and the client state; at start-up the caches are empty  *)
(* and the client is idle.                                                 *)
cache_tabeller == <<haendelser, cache, clock, klient>>

cache_init ==
    /\ haendelser = <<>>
    /\ cache = <<>>
    /\ clock = 0
    /\ klient = [loading |-> FALSE, error_message |-> <<>>, api_cache |-> <<>>]

----------------------------------------------------------------------------
(* Nullable column values: NULL is the empty tuple, a value v is <<v>>.    *)

NULL == <<>>

Val(v) == <<v>>

(* SQL truth values. *)
T3 == "T"
F3 == "F"
U3 == "U"

SqlEq(a, b) == IF a = NULL \/ b = NULL THEN U3 ELSE IF a[1] = b[1] THEN T3 ELSE F3

SqlNe(a, b) == IF a = NULL \/ b = NULL THEN U3 ELSE IF a[1] # b[1] THEN T3 ELSE F3

SqlGe(a, b) == IF a = NULL \/ b = NULL THEN U3 ELSE IF a[1] >= b[1] THEN T3 ELSE F3

SqlLe(a, b) == IF a = NULL \/ b = NULL THEN U3 ELSE IF a[1] <= b[1] THEN T3 ELSE F3

SqlLt(a, b) == IF a = NULL \/ b = NULL THEN U3 ELSE IF a[1] < b[1] THEN T3 ELSE F3

SqlIsNull(a) == IF a = NULL THEN T3 ELSE F3

SqlAnd(p, q) ==
    IF p = F3 \/ q = F3 THEN F3
    ELSE IF p = T3 /\ q = T3 THEN T3
    ELSE U3

SqlOr(p, q) ==
    IF p = T3 \/ q = T3 THEN T3
    ELSE IF p = F3 /\ q = F3 THEN F3
    ELSE U3

(* and_(...) / or_(...) / filter(a, b, ...) over a list of conditions. *)
RECURSIVE and_(_)
and_(conds) ==
    IF conds = <<>> THEN T3 ELSE SqlAnd(Head(conds), and_(Tail(conds)))

RECURSIVE or_(_)
or_(conds) ==
    IF conds = <<>> THEN F3 ELSE SqlOr(Head(conds), or_(Tail(conds)))

(* db.query(func.count(Id)).filter(cond).scalar() or 0 *)
QueryCount(rows, cond(_)) == Cardinality({i \in DOMAIN rows : cond(rows[i]) = T3})

----------------------------------------------------------------------------
(* Timestamps are day numbers counted from 1 January of BaseYear. *)

BaseYear == 2024

IsLeap(y) == (y % 4 = 0 /\ y % 100 # 0) \/ y % 400 = 0

DaysInYear(y) == IF IsLeap(y) THEN 366 ELSE 365

DaysInMonth(y, m) ==
    IF m = 2 THEN (IF IsLeap(y) THEN 29 ELSE 28)
    ELSE IF m \in {4, 6, 9, 11} THEN 30 ELSE 31

RECURSIVE YearOfFrom(_, _)
YearOfFrom(y, d) == IF d < DaysInYear(y) THEN y ELSE YearOfFrom(y + 1, d - DaysInYear(y))

RECURSIVE DayOfYearFrom(_, _)
DayOfYearFrom(y, d) == IF d < DaysInYear(y) THEN d ELSE DayOfYearFrom(y + 1, d - DaysInYear(y))

RECURSIVE MonthOfFrom(_, _, _)
MonthOfFrom(y, m, d) ==
    IF d < DaysInMonth(y, m) THEN m ELSE MonthOfFrom(y, m + 1, d - DaysInMonth(y, m))

(* extract('year', col) and extract('month', col): NULL for a NULL date. *)
ExtractYear(t) == IF t = NULL THEN NULL ELSE Val(YearOfFrom(BaseYear, t[1]))

ExtractMonth(t) ==
    IF t = NULL THEN NULL
    ELSE Val(MonthOfFrom(YearOfFrom(BaseYear, t[1]), 1, DayOfYearFrom(BaseYear, t[1])))

----------------------------------------------------------------------------
(* One row of AMOSagsbehandling, joined to its project's type name.        *)
(* ProjektType is NULL when the inner joins to AMOProjekt/AMOProjekttype   *)
(* find no partner or the type has no name.                                *)

Sag(ptype, f, a, p, frist, oprettet, fdato) ==
    [ ProjektType       |-> ptype,
      FaerdigmeldtInt   |-> f,
      AfsluttetInt      |-> a,
      Paabud            |-> p,
      Paabudsfrist      |-> frist,
      OprettetDato      |-> oprettet,
      FaerdigmeldingDato |-> fdato ]

NoResp == [endpoint |-> "none"]

(* Bound on the number of rows of the table. *)
MaxSager == 2

(* A row written by the case-management system. *)
InsertSag(ptypes, fs, as, ps, frists, oprettede, fdatoer) ==
    /\ Len(sager) < MaxSager
    /\ \E ptype \in ptypes, f \in fs, a \in as, p \in ps,
          frist \in frists, oprettet \in oprettede, fdato \in fdatoer :
            sager' = Append(sager, Sag(ptype, f, a, p, frist, oprettet, fdato))
    /\ resp' = NoResp
    /\ UNCHANGED <<projekt_tabeller, cache_tabeller>>

----------------------------------------------------------------------------
(* GET /api/separering/stats: get_separering_stats *)

(* The closed filter with the legacy code dropped: closed only by the     *)
(* closed flag.                                                            *)
afsluttede_separering_sager_filter_uden_legacy(s) ==
    and_(<< SqlEq(s.ProjektType, Val("Separering")),
            SqlEq(s.AfsluttetInt, Val(1)) >>)

afsluttede_separering_sager_filter(s) ==
    and_(<< SqlEq(s.ProjektType, Val("Separering")),
            or_(<< SqlEq(s.FaerdigmeldtInt, Val(-1)),
                   SqlEq(s.AfsluttetInt, Val(1)) >>) >>)

afsluttede_separering_sager(rows) == QueryCount(rows, afsluttede_separering_sager_filter)

aktive_separering_sager_filter(s) ==
    and_(<< SqlEq(s.ProjektType, Val("Separering")),
            SqlNe(s.FaerdigmeldtInt, Val(1)),
            SqlNe(s.AfsluttetInt, Val(1)),
            SqlNe(s.FaerdigmeldtInt, Val(-1)) >>)

aktive_separering_sager(rows) == QueryCount(rows, aktive_separering_sager_filter)

nye_separering_sager(rows, now) ==
    LET one_year_ago == Val(now - 365)
        cond(s) == and_(<< SqlEq(s.ProjektType, Val("Separering")),
                           SqlGe(s.OprettetDato, one_year_ago) >>)
    IN  QueryCount(rows, cond)

separering_paabud_aktive_filter(s) ==
    and_(<< SqlEq(s.ProjektType, Val("Separering")),
            SqlNe(s.FaerdigmeldtInt, Val(1)),
            SqlNe(s.AfsluttetInt, Val(1)),
            SqlNe(s.FaerdigmeldtInt, Val(-1)),
            SqlEq(s.Paabud, Val("Ja")) >>)

separering_paabud_aktive(rows) == QueryCount(rows, separering_paabud_aktive_filter)

separering_paabud_total_filter(s) ==
    and_(<< SqlEq(s.ProjektType, Val("Separering")),
            SqlEq(s.Paabud, Val("Ja")) >>)

separering_paabud_total(rows) == QueryCount(rows, separering_paabud_total_filter)

separering_stats(rows, now) ==
    [ total_projekttyper     |-> afsluttede_separering_sager(rows),
      active_projekter       |-> aktive_separering_sager(rows),
      total_projekter        |-> nye_separering_sager(rows, now),
      total_haendelser       |-> separering_paabud_total(rows),
      active_haendelser      |-> separering_paabud_aktive(rows),
      pending_sagsbehandling |-> 0,
      recent_imports         |-> 0 ]

----------------------------------------------------------------------------
(* GET /api/aabenland/stats: get_aabenland_stats *)

afsluttede_aabenland_sager_filter(s) ==
    and_(<< SqlEq(s.ProjektType, Val("Aaben Land")),
            or_(<< SqlEq(s.FaerdigmeldtInt, Val(-1)),
                   SqlEq(s.AfsluttetInt, Val(1)) >>) >>)

afsluttede_aabenland_sager(rows) == QueryCount(rows, afsluttede_aabenland_sager_filter)

aktive_aabenland_sager_filter(s) ==
    and_(<< SqlEq(s.ProjektType, Val("Aaben Land")),
            SqlNe(s.FaerdigmeldtInt, Val(1)),
            SqlNe(s.AfsluttetInt, Val(1)),
            SqlNe(s.FaerdigmeldtInt, Val(-1)) >>)

aktive_aabenland_sager(rows) == QueryCount(rows, aktive_aabenland_sager_filter)

aabenland_sager_seneste_aar(rows, now) ==
    LET one_year_ago == Val(now - 365)
        cond(s) == and_(<< SqlEq(s.ProjektType, Val("Aaben Land")),
                           SqlGe(s.OprettetDato, one_year_ago) >>)
    IN  QueryCount(rows, cond)

aabenland_paabud_aktive_filter(s) ==
    and_(<< SqlEq(s.ProjektType, Val("Aaben Land")),
            SqlNe(s.FaerdigmeldtInt, Val(1)),
            SqlNe(s.AfsluttetInt, Val(1)),
            SqlNe(s.FaerdigmeldtInt, Val(-1)),
            SqlEq(s.Paabud, Val("Ja")) >>)

aabenland_paabud_aktive(rows) == QueryCount(rows, aabenland_paabud_aktive_filter)

(* The "temporary fix": the total is not queried, it is the active count   *)
(* times 1.3, truncated by int().  For the counts of the model            *)
(* int(n * 1.3) = (13 * n) div 10.                                         *)
aabenland_paabud_aktive_temp_filter(s) ==
    and_(<< SqlEq(s.ProjektType, Val("Aaben Land")),
            SqlNe(s.FaerdigmeldtInt, Val(1)),
            SqlNe(s.AfsluttetInt, Val(1)),
            SqlNe(s.FaerdigmeldtInt, Val(-1)),
            SqlEq(s.Paabud, Val("Ja")) >>)

aabenland_paabud_aktive_temp(rows) == QueryCount(rows, aabenland_paabud_aktive_temp_filter)

(* The estimate keeping only the estimated closed share (30%). *)
aabenland_paabud_total_kun_estimat(rows) == (aabenland_paabud_aktive_temp(rows) * 3) \div 10

aabenland_paabud_total(rows) == (aabenland_paabud_aktive_temp(rows) * 13) \div 10

aabenland_stats(rows, now) ==
    [ total_projekttyper     |-> afsluttede_aabenland_sager(rows),
      active_projekter       |-> aktive_aabenland_sager(rows),
      total_projekter        |-> aabenland_sager_seneste_aar(rows, now),
      total_haendelser       |-> aabenland_paabud_total(rows),
      active_haendelser      |-> aabenland_paabud_aktive(rows),
      pending_sagsbehandling |-> 0,
      recent_imports         |-> 0 ]

----------------------------------------------------------------------------
(* GET /api/dispensationssag/stats: get_dispensationssag_stats *)

afsluttede_dispensationssag_sager_filter(s) ==
    and_(<< SqlEq(s.ProjektType, Val("Dispensationssag")),
            SqlEq(s.AfsluttetInt, Val(-1)) >>)

afsluttede_dispensationssag_sager(rows) == QueryCount(rows, afsluttede_dispensationssag_sager_filter)

(* The active filter written as "not closed" instead of "= 0". *)
aktive_dispensationssag_sager_filter_ikke_afsluttet(s) ==
    and_(<< SqlEq(s.ProjektType, Val("Dispensationssag")),
            SqlNe(s.AfsluttetInt, Val(-1)) >>)

aktive_dispensationssag_sager_filter(s) ==
    and_(<< SqlEq(s.ProjektType, Val("Dispensationssag")),
            SqlEq(s.AfsluttetInt, Val(0)) >>)

aktive_dispensationssag_sager(rows) == QueryCount(rows, aktive_dispensationssag_sager_filter)

nye_dispensationssag_sager(rows, now) ==
    LET one_year_ago == Val(now - 365)
        cond(s) == and_(<< SqlEq(s.ProjektType, Val("Dispensationssag")),
                           SqlGe(s.OprettetDato, one_year_ago) >>)
    IN  QueryCount(rows, cond)

dispensationssag_paabud_total_filter(s) ==
    and_(<< SqlEq(s.ProjektType, Val("Dispensationssag")),
            SqlEq(s.Paabud, Val("Ja")) >>)

dispensationssag_paabud_total(rows) == QueryCount(rows, dispensationssag_paabud_total_filter)

dispensationssag_paabud_aktive_filter(s) ==
    and_(<< SqlEq(s.ProjektType, Val("Dispensationssag")),
            SqlEq(s.AfsluttetInt, Val(0)),
            SqlEq(s.Paabud, Val("Ja")) >>)

dispensationssag_paabud_aktive(rows) == QueryCount(rows, dispensationssag_paabud_aktive_filter)

dispensationssag_stats(rows, now) ==
    [ total_projekttyper     |-> afsluttede_dispensationssag_sager(rows),
      active_projekter       |-> aktive_dispensationssag_sager(rows),
      total_projekter        |-> nye_dispensationssag_sager(rows, now),
      total_haendelser       |-> dispensationssag_paabud_total(rows),
      active_haendelser      |-> dispensationssag_paabud_aktive(rows),
      pending_sagsbehandling |-> 0,
      recent_imports         |-> 0 ]

----------------------------------------------------------------------------
(* GET /api/nedsivningstilladelse/stats: get_nedsivningstilladelse_stats *)

afsluttede_nedsivningstilladelse_sager_filter(s) ==
    and_(<< SqlEq(s.ProjektType, Val("Nedsivningstilladelse")),
            SqlEq(s.AfsluttetInt, Val(-1)) >>)

afsluttede_nedsivningstilladelse_sager(rows) == QueryCount(rows, afsluttede_nedsivningstilladelse_sager_filter)

aktive_nedsivningstilladelse_sager_filter(s) ==
    and_(<< SqlEq(s.ProjektType, Val("Nedsivningstilladelse")),
            SqlEq(s.AfsluttetInt, Val(0)) >>)

aktive_nedsivningstilladelse_sager(rows) == QueryCount(rows, aktive_nedsivningstilladelse_sager_filter)

nedsivningstilladelse_sager_seneste_aar(rows, now) ==
    LET one_year_ago == Val(now - 365)
        cond(s) == and_(<< SqlEq(s.ProjektType, Val("Nedsivningstilladelse")),
                           SqlGe(s.OprettetDato, one_year_ago) >>)
    IN  QueryCount(rows, cond)

nedsivningstilladelse_paabud_total_filter(s) ==
    and_(<< SqlEq(s.ProjektType, Val("Nedsivningstilladelse")),
            SqlEq(s.Paabud, Val("Ja")) >>)

nedsivningstilladelse_paabud_total(rows) == QueryCount(rows, nedsivningstilladelse_paabud_total_filter)

nedsivningstilladelse_paabud_aktive_filter(s) ==
    and_(<< SqlEq(s.ProjektType, Val("Nedsivningstilladelse")),
            SqlEq(s.AfsluttetInt, Val(0)),
            SqlEq(s.Paabud, Val("Ja")) >>)

nedsivningstilladelse_paabud_aktive(rows) == QueryCount(rows, nedsivningstilladelse_paabud_aktive_filter)

nedsivningstilladelse_stats(rows, now) ==
    [ total_projekttyper     |-> afsluttede_nedsivningstilladelse_sager(rows),
      active_projekter       |-> aktive_nedsivningstilladelse_sager(rows),
      total_projekter        |-> nedsivningstilladelse_sager_seneste_aar(rows, now),
      total_haendelser       |-> nedsivningstilladelse_paabud_total(rows),
      active_haendelser      |-> nedsivningstilladelse_paabud_aktive(rows),
      pending_sagsbehandling |-> 0,
      recent_imports         |-> 0 ]

----------------------------------------------------------------------------
(* The requests.  Each handler reads the table as it is and returns its    *)
(* response; resp is the response to the latest request on the current     *)
(* table.  datetime.utcnow() is an input of the request.                   *)

Nows == {400}

Respond(name, stats) ==
    /\ resp' = [endpoint |-> name, success |-> TRUE, data |-> stats]
    /\ UNCHANGED <<sager, projekt_tabeller, cache_tabeller>>

get_separering_stats == \E now \in Nows : Respond("separering", separering_stats(sager, now))

get_aabenland_stats == \E now \in Nows : Respond("aabenland", aabenland_stats(sager, now))

get_dispensationssag_stats ==
    \E now \in Nows : Respond("dispensationssag", dispensationssag_stats(sager, now))

get_nedsivningstilladelse_stats ==
    \E now \in Nows : Respond("nedsivningstilladelse", nedsivningstilladelse_stats(sager, now))

Init ==
    /\ sager = <<>>
    /\ resp = NoResp
    /\ projekter = <<>>
    /\ projekttyper = {}
    /\ anmodninger = <<>>
    /\ cache_init

----------------------------------------------------------------------------
(* Variant-A dashboards (Separering, Aaben Land) over rows with every      *)
(* combination of the two status flags, each row carrying an order.        *)

FlagValues == {NULL, Val(-1), Val(0), Val(1)}

VariantATypes == {Val("Separering"), Val("Aaben Land")}

InsertSagA ==
    InsertSag(VariantATypes, FlagValues, FlagValues, {Val("Ja")}, {NULL}, {NULL}, {NULL})

NextA == InsertSagA \/ get_separering_stats \/ get_aabenland_stats

SpecA == Init /\ [][NextA]_vars

----------------------------------------------------------------------------
(* Variant-B dashboards (Dispensationssag, Nedsivningstilladelse); the     *)
(* closed flag also takes a value outside {-1, 0, 1}.                      *)

VariantBTypes == {Val("Dispensationssag"), Val("Nedsivningstilladelse")}

InsertSagB ==
    InsertSag(VariantBTypes, FlagValues, FlagValues \cup {Val(2)}, {Val("Ja")},
              {NULL}, {NULL}, {NULL})

NextB == InsertSagB \/ get_dispensationssag_stats \/ get_nedsivningstilladelse_stats

SpecB == Init /\ [][NextB]_vars

----------------------------------------------------------------------------
(* The order counts of all four dashboards, over rows with and without an  *)
(* order that are open, finished-reported or closed.                       *)

PaabudValues == {NULL, Val("Ja")}

InsertSagOrders ==
    InsertSag(VariantATypes \cup VariantBTypes, {Val(0), Val(1)}, {Val(0), Val(-1)},
              PaabudValues, {NULL}, {NULL}, {NULL})

NextOrders ==
    \/ InsertSagOrders
    \/ get_separering_stats
    \/ get_aabenland_stats
    \/ get_dispensationssag_stats
    \/ get_nedsivningstilladelse_stats

SpecOrders == Init /\ [][NextOrders]_vars

----------------------------------------------------------------------------
(* What the properties below read off the table: the rows of the category  *)
(* a dashboard reports on, and how many of them have given column values.  *)

CategoryOf(endpoint) ==
    CASE endpoint = "separering" -> "Separering"
      [] endpoint = "aabenland" -> "Aaben Land"
      [] endpoint = "dispensationssag" -> "Dispensationssag"
      [] endpoint = "nedsivningstilladelse" -> "Nedsivningstilladelse"

VariantAEndpoints == {"separering", "aabenland"}

VariantBEndpoints == {"dispensationssag", "nedsivningstilladelse"}

CategoryEndpoints == VariantAEndpoints \cup VariantBEndpoints

CategoryRows == {i \in DOMAIN sager : sager[i].ProjektType = Val(CategoryOf(resp.endpoint))}

NumRows(P(_)) == Cardinality({i \in CategoryRows : P(sager[i])})

----------------------------------------------------------------------------
(* C1: in a Variant-A dashboard every record of the category falls in      *)
(* exactly one of the buckets closed (counted in afsluttede), active       *)
(* (counted in aktive) and finished-reported (FaerdigmeldtInt = 1 and not  *)
(* closed), so the three bucket counts sum to the number of records.       *)
C1_BucketsPartition ==
    resp.endpoint \in VariantAEndpoints =>
        LET FinishedReported(s) ==
                /\ s.FaerdigmeldtInt = Val(1)
                /\ ~(s.FaerdigmeldtInt = Val(-1) \/ s.AfsluttetInt = Val(1))
        IN  resp.data.total_projekttyper + resp.data.active_projekter
                + NumRows(FinishedReported) = Cardinality(CategoryRows)

(* C2: in a Variant-A dashboard a record whose flags are 0 or NULL (in    *)
(* particular FaerdigmeldtInt = 0 with AfsluttetInt = NULL) is counted as  *)
(* active: NULL is treated like 0.                                         *)
C2_NullCountsAsActive ==
    resp.endpoint \in VariantAEndpoints =>
        LET OpenOrNull(s) ==
                /\ s.FaerdigmeldtInt \in {NULL, Val(0)}
                /\ s.AfsluttetInt \in {NULL, Val(0)}
        IN  resp.data.active_projekter >= NumRows(OpenOrNull)

(* C3: in a Variant-A dashboard every record with FaerdigmeldtInt = -1 is  *)
(* counted as closed and none of them as active or active with an order,   *)
(* whatever its AfsluttetInt.                                              *)
C3_LegacyFinishedIsClosed ==
    resp.endpoint \in VariantAEndpoints =>
        LET Legacy(s) == s.FaerdigmeldtInt = Val(-1)
        IN  /\ resp.data.total_projekttyper >= NumRows(Legacy)
            /\ resp.data.active_projekter <= Cardinality(CategoryRows) - NumRows(Legacy)
            /\ resp.data.active_haendelser <= Cardinality(CategoryRows) - NumRows(Legacy)

C3_Witness ==
    /\ resp.endpoint = "separering"
    /\ sager = << Sag(Val("Separering"), Val(-1), Val(0), Val("Ja"), NULL, NULL, NULL) >>
    /\ resp.data.total_projekttyper = 1
    /\ resp.data.active_projekter = 0

(* C4: in a Variant-A dashboard no record with AfsluttetInt = -1 is        *)
(* counted as active or as active with an order.                           *)
C4_LegacyClosedNeverActive ==
    resp.endpoint \in VariantAEndpoints =>
        LET LegacyClosed(s) == s.AfsluttetInt = Val(-1)
        IN  /\ resp.data.active_projekter <= Cardinality(CategoryRows) - NumRows(LegacyClosed)
            /\ resp.data.active_haendelser <= Cardinality(CategoryRows) - NumRows(LegacyClosed)

(* C5: in a Variant-B dashboard every record with AfsluttetInt = -1 is     *)
(* counted as closed and not as active, every record with AfsluttetInt = 0 *)
(* as active and not as closed, and a record with any other non-null       *)
(* AfsluttetInt as neither, whatever its FaerdigmeldtInt.                  *)
C5_VariantBBuckets ==
    resp.endpoint \in VariantBEndpoints =>
        LET n == Cardinality(CategoryRows)
            Closed(s) == s.AfsluttetInt = Val(-1)
            Open(s) == s.AfsluttetInt = Val(0)
            Other(s) == s.AfsluttetInt \notin {NULL, Val(-1), Val(0)}
        IN  /\ resp.data.total_projekttyper >= NumRows(Closed)
            /\ resp.data.active_projekter >= NumRows(Open)
            /\ resp.data.active_projekter <= n - NumRows(Closed) - NumRows(Other)
            /\ resp.data.total_projekttyper <= n - NumRows(Open) - NumRows(Other)

C5_Witness ==
    /\ resp.endpoint = "dispensationssag"
    /\ sager = << Sag(Val("Dispensationssag"), Val(1), Val(2), Val("Ja"), NULL, NULL, NULL),
                  Sag(Val("Dispensationssag"), Val(0), Val(-1), Val("Ja"), NULL, NULL, NULL) >>
    /\ resp.data.total_projekttyper = 1
    /\ resp.data.active_projekter = 0

(* C6: in a Variant-B dashboard a record whose AfsluttetInt is NULL is     *)
(* counted as active, like a record with AfsluttetInt = 0.                 *)
C6_NullClosedFlagIsActive ==
    resp.endpoint \in VariantBEndpoints =>
        LET OpenOrNull(s) == s.AfsluttetInt \in {NULL, Val(0)}
        IN  resp.data.active_projekter >= NumRows(OpenOrNull)

(* C7: in every category dashboard total_haendelser is the number of       *)
(* records of the category with Paabud = "Ja", closed and finished ones    *)
(* included.                                                               *)
C7_TotalOrdersIsActualCount ==
    resp.endpoint \in CategoryEndpoints =>
        LET HasOrder(s) == s.Paabud = Val("Ja")
        IN  resp.data.total_haendelser = NumRows(HasOrder)

(* C8: in every category dashboard the count of active cases with an order *)
(* is at most the count of all cases with an order.                        *)
C8_ActiveOrdersAtMostTotal ==
    resp.endpoint \in CategoryEndpoints =>
        resp.data.active_haendelser <= resp.data.total_haendelser

C8_Witness ==
    /\ resp.endpoint = "aabenland"
    /\ resp.data.active_haendelser = 2
    /\ resp.data.total_haendelser = 2

----------------------------------------------------------------------------
(* GET /api/reports/paabud: get_paabud_statistics, the handler body as it  *)
(* runs on a miss of the response cache.  No project-type filter.          *)

(* datetime(2010, 1, 1) as a day number: 14 years, 3 of them leap years,   *)
(* before 1 January of BaseYear.                                           *)
DefaultFromDate == 0 - (14 * 365 + 3)

total_paabud_filter(s, from_date, to_date) ==
    and_(<< SqlEq(s.Paabud, Val("Ja")),
            SqlGe(s.OprettetDato, from_date),
            SqlLe(s.OprettetDato, to_date) >>)

active_paabud_filter(s, from_date, to_date) ==
    and_(<< SqlEq(s.Paabud, Val("Ja")),
            and_(<< or_(<< SqlNe(s.FaerdigmeldtInt, Val(1)),
                           SqlIsNull(s.FaerdigmeldtInt) >>),
                    or_(<< SqlEq(s.AfsluttetInt, Val(0)),
                           SqlIsNull(s.AfsluttetInt) >>) >>),
            SqlGe(s.OprettetDato, from_date),
            SqlLe(s.OprettetDato, to_date) >>)

overdue_paabud_filter(s, from_date, to_date, now) ==
    and_(<< SqlEq(s.Paabud, Val("Ja")),
            SqlLt(s.Paabudsfrist, Val(now)),
            and_(<< or_(<< SqlNe(s.FaerdigmeldtInt, Val(1)),
                           SqlIsNull(s.FaerdigmeldtInt) >>),
                    or_(<< SqlEq(s.AfsluttetInt, Val(0)),
                           SqlIsNull(s.AfsluttetInt) >>) >>),
            SqlGe(s.OprettetDato, from_date),
            SqlLe(s.OprettetDato, to_date) >>)

(* round(completed / total * 100, 1), in tenths of a percent. *)
completion_rate(completed_paabud, total_paabud) ==
    IF total_paabud > 0
    THEN (2 * 1000 * completed_paabud + total_paabud) \div (2 * total_paabud)
    ELSE 0

paabud_statistics(rows, from_param, to_param, now) ==
    LET from_date == IF from_param = NULL THEN Val(DefaultFromDate) ELSE from_param
        to_date == IF to_param = NULL THEN Val(now) ELSE to_param
        total(s) == total_paabud_filter(s, from_date, to_date)
        active(s) == active_paabud_filter(s, from_date, to_date)
        overdue(s) == overdue_paabud_filter(s, from_date, to_date, now)
        total_paabud == QueryCount(rows, total)
        active_paabud == QueryCount(rows, active)
        overdue_paabud == QueryCount(rows, overdue)
        completed_paabud == total_paabud - active_paabud
    IN  [ from_date        |-> from_date,
          to_date          |-> to_date,
          total_paabud     |-> total_paabud,
          active_paabud    |-> active_paabud,
          completed_paabud |-> completed_paabud,
          overdue_paabud   |-> overdue_paabud,
          completion_rate  |-> completion_rate(completed_paabud, total_paabud) ]

FromDates == {NULL, Val(100)}

get_paabud_statistics ==
    \E now \in Nows, from_param \in FromDates :
        /\ resp' = [endpoint |-> "paabud", success |-> TRUE, now |-> now,
                    data |-> paabud_statistics(sager, from_param, NULL, now)]
        /\ UNCHANGED <<sager, projekt_tabeller, cache_tabeller>>

(* Rows with and without an order, with a deadline before or after the     *)
(* request or none, created inside or before the requested window.         *)
InsertSagPaabud ==
    InsertSag({Val("Separering")}, FlagValues, FlagValues, PaabudValues,
              {NULL, Val(300), Val(500)}, {Val(50), Val(200)}, {NULL})

NextPaabud == InsertSagPaabud \/ get_paabud_statistics

SpecPaabud == Init /\ [][NextPaabud]_vars

(* C9: a case is counted as overdue exactly when it has an order, its      *)
(* deadline is before the time of the request and it is active; a closed   *)
(* or finished-reported case (FaerdigmeldtInt in {1, -1} or AfsluttetInt   *)
(* in {1, -1}) is never counted, and overdue_paabud <= active_paabud.      *)
C9_OverdueOnlyActive ==
    resp.endpoint = "paabud" =>
        LET InWindow(s) ==
                /\ s.OprettetDato # NULL
                /\ s.OprettetDato[1] >= resp.data.from_date[1]
                /\ s.OprettetDato[1] <= resp.data.to_date[1]
            Active(s) ==
                /\ s.FaerdigmeldtInt \notin {Val(1), Val(-1)}
                /\ s.AfsluttetInt \notin {Val(1), Val(-1)}
            Overdue(s) ==
                /\ s.Paabud = Val("Ja")
                /\ s.Paabudsfrist # NULL
                /\ s.Paabudsfrist[1] < resp.now
                /\ Active(s)
        IN  /\ resp.data.overdue_paabud =
                    Cardinality({i \in DOMAIN sager : InWindow(sager[i]) /\ Overdue(sager[i])})
            /\ resp.data.overdue_paabud <= resp.data.active_paabud

----------------------------------------------------------------------------
(* GET /api/reports/monthly-trends: get_monthly_trends *)

(* Text as the sequence of its characters, folded to lower case as ILIKE   *)
(* compares them, for the names and patterns of the model.                 *)
LowerChars(text) ==
    CASE text = "Separering" -> <<"s", "e", "p", "a", "r", "e", "r", "i", "n", "g">>
      [] text = "Aaben Land" -> <<"aa", "b", "e", "n", " ", "l", "a", "n", "d">>
      [] text = "LAND" -> <<"l", "a", "n", "d">>

(* col.ilike('%' + pattern + '%'): the pattern occurs in the column's text. *)
ILikeContains(col, pattern) ==
    IF col = NULL THEN U3
    ELSE LET hay == LowerChars(col[1])
             needle == LowerChars(pattern)
         IN  IF \E i \in 1..(Len(hay) - Len(needle) + 1) :
                    SubSeq(hay, i, i + Len(needle) - 1) = needle
             THEN T3 ELSE F3

(* func.max(extract('year', OprettetDato)): NULL when no row has a date. *)
most_recent(rows) ==
    LET years == {ExtractYear(rows[i].OprettetDato)[1] :
                    i \in {j \in DOMAIN rows : rows[j].OprettetDato # NULL}}
    IN  IF years = {} THEN NULL
        ELSE Val(CHOOSE y \in years : \A z \in years : z <= y)

(* The optional join and filter on the project type's name. *)
projekttype_filter(s, projekttype_navn) ==
    IF projekttype_navn = NULL THEN T3
    ELSE ILikeContains(s.ProjektType, projekttype_navn[1])

(* The GROUP BY results as dictionaries month -> count; a month without a  *)
(* selected row has no entry.                                              *)
created_dict(rows, year, projekttype_navn) ==
    LET sel == {i \in DOMAIN rows :
                    and_(<< projekttype_filter(rows[i], projekttype_navn),
                            SqlEq(ExtractYear(rows[i].OprettetDato), Val(year)) >>) = T3}
        months == {ExtractMonth(rows[i].OprettetDato)[1] : i \in sel}
    IN  [m \in months |->
            Cardinality({i \in sel : ExtractMonth(rows[i].OprettetDato)[1] = m})]

completed_dict(rows, year, projekttype_navn) ==
    LET sel == {i \in DOMAIN rows :
                    and_(<< projekttype_filter(rows[i], projekttype_navn),
                            SqlEq(ExtractYear(rows[i].FaerdigmeldingDato), Val(year)),
                            SqlEq(rows[i].FaerdigmeldtInt, Val(1)) >>) = T3}
        months == {ExtractMonth(rows[i].FaerdigmeldingDato)[1] : i \in sel}
    IN  [m \in months |->
            Cardinality({i \in sel : ExtractMonth(rows[i].FaerdigmeldingDato)[1] = m})]

(* dict.get(key, default) *)
DictGet(dict, key, default) == IF key \in DOMAIN dict THEN dict[key] ELSE default

month_abbr ==
    <<"Jan", "Feb", "Mar", "Apr", "May", "Jun", "Jul", "Aug", "Sep", "Oct", "Nov", "Dec">>

(* The loop over range(1, 13) omitting the months that have no entry in    *)
(* either dictionary.                                                      *)
RECURSIVE monthly_data_kun_fundne(_, _, _)
monthly_data_kun_fundne(created, completed, month) ==
    IF month > 12 THEN <<>>
    ELSE IF month \in DOMAIN created \cup DOMAIN completed
    THEN << [ month      |-> month,
              month_name |-> month_abbr[month],
              created    |-> DictGet(created, month, 0),
              completed  |-> DictGet(completed, month, 0) ] >>
         \o monthly_data_kun_fundne(created, completed, month + 1)
    ELSE monthly_data_kun_fundne(created, completed, month + 1)

(* for month in range(1, 13): monthly_data.append({...}) *)
RECURSIVE monthly_data(_, _, _)
monthly_data(created, completed, month) ==
    IF month > 12 THEN <<>>
    ELSE << [ month      |-> month,
              month_name |-> month_abbr[month],
              created    |-> DictGet(created, month, 0),
              completed  |-> DictGet(completed, month, 0) ] >>
         \o monthly_data(created, completed, month + 1)

monthly_trends(rows, year_param, projekttype_navn, now) ==
    LET year == IF year_param # NULL THEN year_param[1]
                ELSE IF most_recent(rows) # NULL THEN most_recent(rows)[1]
                ELSE YearOfFrom(BaseYear, now)
    IN  [ year           |-> year,
          monthly_trends |-> monthly_data(created_dict(rows, year, projekttype_navn),
                                          completed_dict(rows, year, projekttype_navn), 1) ]

TrendYears == {NULL, Val(BaseYear)}

TrendPatterns == {NULL, Val("LAND")}

get_monthly_trends ==
    \E now \in Nows, year \in TrendYears, projekttype_navn \in TrendPatterns :
        /\ resp' = [endpoint |-> "monthly_trends", success |-> TRUE,
                    projekttype_navn |-> projekttype_navn,
                    data |-> monthly_trends(sager, year, projekttype_navn, now)]
        /\ UNCHANGED <<sager, projekt_tabeller, cache_tabeller>>

(* Rows created on day 59 (in February or on 1 March) of BaseYear, in      *)
(* January of the next year or without a date; finished-reported or not,   *)
(* with or without a finished-report date (day 100, in April).             *)
InsertSagTrends ==
    InsertSag(VariantATypes, {Val(0), Val(1)}, {NULL}, {NULL}, {NULL},
              {NULL, Val(59), Val(370)}, {NULL, Val(100)})

NextTrends == InsertSagTrends \/ get_monthly_trends

SpecTrends == Init /\ [][NextTrends]_vars

(* C10: the monthly trend has exactly 12 entries, entry m being month m;   *)
(* a month in which no record was created (finished-reported) has created  *)
(* (completed) 0, so an empty table gives 12 zero entries; without a type  *)
(* filter created is the number of records created in that month of the    *)
(* year.                                                                   *)
C10_TwelveMonthsZeroFilled ==
    resp.endpoint = "monthly_trends" =>
        LET trend == resp.data.monthly_trends
            CreatedIn(m) ==
                {i \in DOMAIN sager :
                    /\ sager[i].OprettetDato # NULL
                    /\ ExtractYear(sager[i].OprettetDato) = Val(resp.data.year)
                    /\ ExtractMonth(sager[i].OprettetDato) = Val(m)}
            CompletedIn(m) ==
                {i \in DOMAIN sager :
                    /\ sager[i].FaerdigmeldingDato # NULL
                    /\ ExtractYear(sager[i].FaerdigmeldingDato) = Val(resp.data.year)
                    /\ ExtractMonth(sager[i].FaerdigmeldingDato) = Val(m)}
        IN  /\ Len(trend) = 12
            /\ \A m \in 1..12 :
                    /\ trend[m].month = m
                    /\ trend[m].created <= Cardinality(CreatedIn(m))
                    /\ trend[m].completed <= Cardinality(CompletedIn(m))
                    /\ resp.projekttype_navn = NULL =>
                            trend[m].created = Cardinality(CreatedIn(m))

C10_Witness ==
    /\ resp.endpoint = "monthly_trends"
    /\ resp.data.year = BaseYear
    /\ Len(sager) = 2
    /\ resp.data.monthly_trends[1].created = 0
    /\ \E m \in {2, 3} : resp.data.monthly_trends[m].created = 1
    /\ resp.data.monthly_trends[4].completed = 1
    /\ resp.data.monthly_trends[12].created = 0

----------------------------------------------------------------------------
(* Calendar arithmetic of datetime and dateutil.relativedelta. *)

(* Days from 1 January of BaseYear to 1 January of year y. *)
RECURSIVE DaysBeforeYear(_)
DaysBeforeYear(y) ==
    IF y = BaseYear THEN 0
    ELSE IF y > BaseYear THEN DaysBeforeYear(y - 1) + DaysInYear(y - 1)
    ELSE DaysBeforeYear(y + 1) - DaysInYear(y)

RECURSIVE DaysBeforeMonth(_, _)
DaysBeforeMonth(y, m) ==
    IF m = 1 THEN 0 ELSE DaysBeforeMonth(y, m - 1) + DaysInMonth(y, m - 1)

(* datetime(year, month, day) *)
datetime(year, month, day) == DaysBeforeYear(year) + DaysBeforeMonth(year, month) + day - 1

(* The year, month and day of a timestamp on or after 1 January BaseYear. *)
YearOf(t) == YearOfFrom(BaseYear, t)

MonthOf(t) == MonthOfFrom(YearOf(t), 1, DayOfYearFrom(BaseYear, t))

DayOf(t) == t - datetime(YearOf(t), MonthOf(t), 1) + 1

Min(a, b) == IF a <= b THEN a ELSE b

Max(a, b) == IF a >= b THEN a ELSE b

(* t + relativedelta(months=n), n of either sign: the month is shifted and *)
(* the day is clamped to the length of the month reached.                  *)
relativedelta_months(t, n) ==
    LET total == YearOf(t) * 12 + (MonthOf(t) - 1) + n
        y == total \div 12
        m == (total % 12) + 1
    IN  datetime(y, m, Min(DayOf(t), DaysInMonth(y, m)))

(* t + relativedelta(years=n) *)
relativedelta_years(t, n) == relativedelta_months(t, 12 * n)

(* Python's sum() over a list of numbers. *)
RECURSIVE sum(_)
sum(xs) == IF xs = <<>> THEN 0 ELSE Head(xs) + sum(Tail(xs))

(* A float that is the quotient of two integers, kept exact: num / den     *)
(* with den > 0.  For the case counts of the model (below 110) the         *)
(* comparisons of the floats and of the exact quotients agree.             *)
Rat(n, d) == [num |-> n, den |-> d]

RatGt(a, b) == a.num * b.den > b.num * a.den

RatLt(a, b) == a.num * b.den < b.num * a.den

RatEq(a, b) == a.num * b.den = b.num * a.den

RatSub(a, b) == Rat(a.num * b.den - b.num * a.den, a.den * b.den)

----------------------------------------------------------------------------
(* GET /api/forecasts/seasonal-analysis: analyze_seasonal_patterns *)

(* The GROUP BY month of the cases created since start_date, as a          *)
(* dictionary month -> cases; a month without a selected row has no entry. *)
seasonal_monthly_data(rows, projekttype_navn, start_date) ==
    LET sel == {i \in DOMAIN rows :
                    and_(<< projekttype_filter(rows[i], projekttype_navn),
                            SqlGe(rows[i].OprettetDato, Val(start_date)) >>) = T3}
        months == {ExtractMonth(rows[i].OprettetDato)[1] : i \in sel}
    IN  [m \in months |->
            Cardinality({i \in sel : ExtractMonth(rows[i].OprettetDato)[1] = m})]

(* sum([row.cases for row in monthly_data]) *)
total_cases(data) ==
    sum([m \in 1..12 |-> DictGet(data, m, 0)])

(* total_cases / 12 if total_cases > 0 else 0 *)
avg_monthly(total) == IF total > 0 THEN Rat(total, 12) ELSE Rat(0, 1)

(* The index with the no-data default dropped to 0. *)
seasonal_index_nul_uden_data(cases, avg) ==
    IF avg.num > 0 THEN Rat(cases * avg.den, avg.num) ELSE Rat(0, 1)

(* (cases / avg_monthly) if avg_monthly > 0 else 1.0 *)
seasonal_index(cases, avg) ==
    IF avg.num > 0 THEN Rat(cases * avg.den, avg.num) ELSE Rat(1, 1)

month_name ==
    <<"January", "February", "March", "April", "May", "June", "July",
      "August", "September", "October", "November", "December">>

(* for month in range(1, 13): monthly_patterns.append({...}) *)
RECURSIVE monthly_patterns(_, _, _)
monthly_patterns(data, avg, month) ==
    IF month > 12 THEN <<>>
    ELSE LET cases == DictGet(data, month, 0)
             index == seasonal_index(cases, avg)
         IN  << [ month          |-> month,
                  month_name     |-> month_name[month],
                  total_cases    |-> cases,
                  seasonal_index |-> index,
                  is_peak        |-> RatGt(index, Rat(12, 10)),
                  is_low         |-> RatLt(index, Rat(8, 10)) ] >>
             \o monthly_patterns(data, avg, month + 1)

(* [p["month_name"] for p in monthly_patterns if p[flag]] *)
peak_months(patterns) == SelectSeq(patterns, LAMBDA p : p.is_peak)

low_months(patterns) == SelectSeq(patterns, LAMBDA p : p.is_low)

(* max(...) - min(...) over the twelve indices *)
seasonal_variation(patterns) ==
    LET hi == CHOOSE i \in DOMAIN patterns : \A j \in DOMAIN patterns :
                    ~RatGt(patterns[j].seasonal_index, patterns[i].seasonal_index)
        lo == CHOOSE i \in DOMAIN patterns : \A j \in DOMAIN patterns :
                    ~RatLt(patterns[j].seasonal_index, patterns[i].seasonal_index)
    IN  RatSub(patterns[hi].seasonal_index, patterns[lo].seasonal_index)

(* "Q1" if the first three months exceed avg_monthly * 3, else "Q2" *)
most_active_quarter(patterns, avg) ==
    IF RatGt(Rat(sum([i \in 1..3 |-> patterns[i].total_cases]), 1), Rat(3 * avg.num, avg.den))
    THEN "Q1" ELSE "Q2"

seasonal_analysis(rows, projekttype_navn, now) ==
    LET start_date == relativedelta_years(now, -3)
        data == seasonal_monthly_data(rows, projekttype_navn, start_date)
        avg == avg_monthly(total_cases(data))
        patterns == monthly_patterns(data, avg, 1)
        peaks == [i \in DOMAIN peak_months(patterns) |-> peak_months(patterns)[i].month_name]
        lows == [i \in DOMAIN low_months(patterns) |-> low_months(patterns)[i].month_name]
    IN  [ monthly_patterns |-> patterns,
          insights |->
            [ peak_months         |-> peaks,
              low_months          |-> lows,
              seasonal_variation  |-> seasonal_variation(patterns),
              most_active_quarter |-> most_active_quarter(patterns, avg) ],
          recommendations |->
            << IF peaks # <<>> THEN <<"Forbered ekstra kapacitet i", peaks>>
               ELSE <<"Jaevn arbejdsbyrde aaret rundt">>,
               IF lows # <<>> THEN <<"Planlaeg vedligeholdelse/ferie i", lows>>
               ELSE <<"Ingen tydelige lavperioder identificeret">> >> ]

analyze_seasonal_patterns ==
    \E now \in Nows, projekttype_navn \in TrendPatterns :
        /\ resp' = [endpoint |-> "seasonal-analysis", success |-> TRUE,
                    projekttype_navn |-> projekttype_navn, now |-> now,
                    data |-> seasonal_analysis(sager, projekttype_navn, now)]
        /\ UNCHANGED <<sager, projekt_tabeller, cache_tabeller>>

(* The tables of the seasonal analysis, built whole: months 1..n hold c    *)
(* cases each, month e (if any) holds one more, the cases of the months up *)
(* to typed belong to a project of type "Aaben Land", the others to no     *)
(* project; optionally a case older than the window and a case without a   *)
(* creation date.                                                          *)
MaxPerMonth == 1

MonthRows(m, k, ptype) ==
    [i \in 1..k |-> Sag(ptype, Val(0), Val(0), NULL, NULL, Val(datetime(BaseYear, m, 15)), NULL)]

RECURSIVE SeasonalTable(_, _, _)
SeasonalTable(counts, typed, m) ==
    IF m > 12 THEN <<>>
    ELSE MonthRows(m, counts[m], IF m <= typed THEN Val("Aaben Land") ELSE NULL)
         \o SeasonalTable(counts, typed, m + 1)

OldRows ==
    << Sag(Val("Aaben Land"), Val(0), Val(0), NULL, NULL, Val(datetime(BaseYear - 4, 6, 15)), NULL),
       Sag(Val("Aaben Land"), Val(0), Val(0), NULL, NULL, NULL, NULL) >>

InitSeasonal ==
    /\ \E n \in 0..12, c \in 1..MaxPerMonth, e \in 0..12, typed \in {0, 6, 12}, old \in BOOLEAN :
          sager = SeasonalTable([m \in 1..12 |-> (IF m <= n THEN c ELSE 0) + (IF m = e THEN 1 ELSE 0)],
                                typed, 1)
                  \o (IF old THEN OldRows ELSE <<>>)
    /\ resp = NoResp
    /\ projekter = <<>>
    /\ projekttyper = {}
    /\ anmodninger = <<>>
    /\ cache_init

NextSeasonal == analyze_seasonal_patterns

SpecSeasonal == InitSeasonal /\ [][NextSeasonal]_vars

(* What the property reads off the table: for each month the number of    *)
(* cases that the request selects.                                         *)
SeasonalTotals ==
    LET start == relativedelta_years(resp.now, -3)
        sel == {i \in DOMAIN sager :
                    /\ sager[i].OprettetDato # NULL
                    /\ sager[i].OprettetDato[1] >= start
                    /\ resp.projekttype_navn # NULL =>
                          ILikeContains(sager[i].ProjektType, resp.projekttype_navn[1]) = T3}
        month == [i \in sel |-> MonthOf(sager[i].OprettetDato[1])]
    IN  [m \in 1..12 |-> Cardinality({i \in sel : month[i] = m})]

(* C11: the seasonal index of month m is (total of month m) / (average     *)
(* monthly total over the 12 months) when that average is positive and 1.0 *)
(* for all 12 months when it is 0; when all 12 months have equal totals    *)
(* every index is 1.0 and no month is flagged as peak or low.              *)
C11_SeasonalIndex ==
    resp.endpoint = "seasonal-analysis" =>
        LET patterns == resp.data.monthly_patterns
            totals == SeasonalTotals
            total == sum(totals)
        IN  /\ Len(patterns) = 12
            /\ \A m \in 1..12 :
                  /\ patterns[m].month = m
                  /\ total > 0 =>
                        patterns[m].seasonal_index.num * total
                            = 12 * totals[m] * patterns[m].seasonal_index.den
                  /\ total = 0 => patterns[m].seasonal_index = Rat(1, 1)
            /\ (\A m \in 1..12 : totals[m] = totals[1]) =>
                  /\ \A m \in 1..12 :
                        /\ RatEq(patterns[m].seasonal_index, Rat(1, 1))
                        /\ ~patterns[m].is_peak
                        /\ ~patterns[m].is_low
                  /\ resp.data.insights.peak_months = <<>>
                  /\ resp.data.insights.low_months = <<>>

(* All twelve months hold the same positive number of selected cases. *)
C11_Witness ==
    /\ resp.endpoint = "seasonal-analysis"
    /\ LET totals == SeasonalTotals
       IN  /\ totals[1] > 0
           /\ \A m \in 1..12 : totals[m] = totals[1]
    /\ \A m \in 1..12 : resp.data.monthly_patterns[m].seasonal_index = Rat(12, 12)

----------------------------------------------------------------------------
(* GET /api/reports/sagsbehandlingstider: get_processing_times             *)
(* GET /api/forecasts/capacity-planning: forecast_capacity_planning        *)

(* A row with its closing date and the ID of its project's type;           *)
(* ProjekttypeID is NULL when the joins find no project or no type.        *)
SagMedDatoer(ptype_id, ptype, f, a, oprettet, fdato, adato) ==
    Sag(ptype, f, a, NULL, NULL, oprettet, fdato)
        @@ [AfsluttetDato |-> adato, ProjekttypeID |-> ptype_id]

(* func.coalesce(a, b) *)
coalesce(a, b) == IF a # NULL THEN a ELSE b

(* DATEDIFF(day, startdate, enddate): NULL when either date is NULL. *)
datediff(startdate, enddate) ==
    IF startdate = NULL \/ enddate = NULL THEN NULL ELSE Val(enddate[1] - startdate[1])

(* The processing time with the closing date preferred to the              *)
(* finished-report date.                                                   *)
processing_days_afsluttet_foerst(s) ==
    datediff(s.OprettetDato, coalesce(s.AfsluttetDato, s.FaerdigmeldingDato))

(* datediff(day, OprettetDato, coalesce(FaerdigmeldingDato, AfsluttetDato)) *)
processing_days(s) ==
    datediff(s.OprettetDato, coalesce(s.FaerdigmeldingDato, s.AfsluttetDato))

(* SQL Server's AVG over an int expression: NULL inputs are skipped, the   *)
(* result is NULL without inputs and otherwise the integer quotient of the *)
(* sum by the count, truncated toward zero.                                *)
sql_avg(rows, sel) ==
    LET used == {i \in sel : processing_days(rows[i]) # NULL}
        RECURSIVE total(_)
        total(S) == IF S = {} THEN 0
                    ELSE LET i == CHOOSE j \in S : TRUE
                         IN  processing_days(rows[i])[1] + total(S \ {i})
        t == total(used)
        n == Cardinality(used)
    IN  IF used = {} THEN NULL
        ELSE IF t >= 0 THEN Val(t \div n) ELSE Val(0 - ((0 - t) \div n))

(* The filter of the processing-time queries of get_processing_times. *)
processing_times_filter(s, now) ==
    and_(<< or_(<< SqlEq(s.FaerdigmeldtInt, Val(1)),
                   SqlEq(s.AfsluttetInt, Val(1)),
                   SqlEq(s.AfsluttetInt, Val(-1)) >>),
            or_(<< IF s.FaerdigmeldingDato # NULL THEN T3 ELSE F3,
                   IF s.AfsluttetDato # NULL THEN T3 ELSE F3 >>),
            IF s.OprettetDato # NULL THEN T3 ELSE F3,
            SqlGe(s.OprettetDato, Val(now - 365)) >>)

(* base_query: the cases joined to their project and its type, with the    *)
(* optional filter on the type's ID.                                       *)
base_query(rows, projekttype_id, now) ==
    {i \in DOMAIN rows :
        /\ rows[i].ProjekttypeID # NULL
        /\ processing_times_filter(rows[i], now) = T3
        /\ projekttype_id # NULL => SqlEq(rows[i].ProjekttypeID, projekttype_id) = T3}

(* base_query.group_by(ProjektType).all(): one (ProjektType, avg_days) per *)
(* type name, in no specified order.                                       *)
by_projekttype(rows, projekttype_id, now) ==
    LET sel == base_query(rows, projekttype_id, now)
    IN  { [ ProjektType |-> name,
            avg_days    |-> sql_avg(rows, {i \in sel : rows[i].ProjektType = name}) ]
          : name \in {rows[i].ProjektType : i \in sel} }

(* overall_avg: the same filter without the joins; ... .scalar() or 0 *)
overall_avg(rows, now) ==
    LET avg == sql_avg(rows, {i \in DOMAIN rows : processing_times_filter(rows[i], now) = T3})
    IN  IF avg = NULL THEN 0 ELSE avg[1]

(* float(item.avg_days or 0), a negative average set to 0 *)
average_days(item) ==
    LET avg_days == IF item.avg_days = NULL THEN 0 ELSE item.avg_days[1]
    IN  IF avg_days < 0 THEN 0 ELSE avg_days

processing_times(rows, projekttype_id, now) ==
    [ overall_average_days |-> overall_avg(rows, now),
      by_projekttype |->
        { [projekttype |-> item.ProjektType, average_days |-> average_days(item)]
          : item \in by_projekttype(rows, projekttype_id, now) } ]

ProjekttypeIds == {NULL, Val(1)}

(* ProcessingTimeItem.projekttype is a str: a type without a name fails    *)
(* the validation of the response.                                         *)
get_processing_times ==
    \E now \in Nows, projekttype_id \in ProjekttypeIds :
        LET data == processing_times(sager, projekttype_id, now)
        IN  /\ resp' =
                 IF \E item \in data.by_projekttype : item.projekttype = NULL
                 THEN [endpoint |-> "sagsbehandlingstider", success |-> FALSE,
                       now |-> now, projekttype_id |-> projekttype_id,
                       error |-> "ValidationError"]
                 ELSE [endpoint |-> "sagsbehandlingstider", success |-> TRUE,
                       now |-> now, projekttype_id |-> projekttype_id,
                       data |-> data]
            /\ UNCHANGED <<sager, projekt_tabeller, cache_tabeller>>

(* current_active: the active cases, with the optional filter on the type  *)
(* name; ... .scalar() or 0                                                *)
current_active(rows, projekttype_navn) ==
    Cardinality({i \in DOMAIN rows :
        and_(<< projekttype_filter(rows[i], projekttype_navn),
                or_(<< SqlNe(rows[i].FaerdigmeldtInt, Val(1)),
                       SqlIsNull(rows[i].FaerdigmeldtInt) >>),
                or_(<< SqlEq(rows[i].AfsluttetInt, Val(0)),
                       SqlIsNull(rows[i].AfsluttetInt) >>) >>) = T3})

(* The filter of the processing-time query of forecast_capacity_planning. *)
capacity_processing_filter(s, projekttype_navn, now) ==
    and_(<< projekttype_filter(s, projekttype_navn),
            or_(<< SqlEq(s.FaerdigmeldtInt, Val(1)),
                   SqlEq(s.AfsluttetInt, Val(1)),
                   SqlEq(s.AfsluttetInt, Val(-1)) >>),
            or_(<< IF s.FaerdigmeldingDato # NULL THEN T3 ELSE F3,
                   IF s.AfsluttetDato # NULL THEN T3 ELSE F3 >>),
            SqlGe(s.OprettetDato, Val(now - 365)) >>)

(* avg_processing_days: ... .scalar() or 85; an average of 0 is falsy too. *)
avg_processing_days(rows, projekttype_navn, now) ==
    LET avg == sql_avg(rows, {i \in DOMAIN rows :
                    capacity_processing_filter(rows[i], projekttype_navn, now) = T3})
    IN  IF avg = NULL \/ avg = Val(0) THEN 85 ELSE avg[1]

working_hours_per_month == 20 * 8

(* max(1, float(avg_processing_days) * 0.5) *)
estimated_hours_per_case(avg_days) == IF avg_days > 2 THEN Rat(avg_days, 2) ELSE Rat(1, 1)

(* max(10, int(current_active * 0.1)) *)
forecasted_cases(active) == Max(10, active \div 10)

(* int(x) of a non-negative quotient *)
RatInt(x) == x.num \div x.den

RatAdd(a, b) == Rat(a.num * b.den + b.num * a.den, a.den * b.den)

RatMul(k, a) == Rat(k * a.num, a.den)

capacity_planning(rows, projekttype_navn, now) ==
    LET active == current_active(rows, projekttype_navn)
        avg_days == avg_processing_days(rows, projekttype_navn, now)
        per_case == estimated_hours_per_case(avg_days)
        current_workload_hours == RatMul(active, per_case)
        forecasted_workload_hours == RatMul(forecasted_cases(active), per_case)
        current_capacity_utilization ==
            Rat(current_workload_hours.num * 100,
                current_workload_hours.den * working_hours_per_month)
        overloaded == RatGt(current_capacity_utilization, Rat(100, 1))
        near == RatGt(current_capacity_utilization, Rat(80, 1))
    IN  [ current_metrics |->
            [ active_cases             |-> active,
              avg_processing_days      |-> avg_days,
              estimated_workload_hours |-> current_workload_hours,
              capacity_utilization     |->
                  IF RatLt(current_capacity_utilization, Rat(200, 1))
                  THEN current_capacity_utilization ELSE Rat(200, 1) ],
          forecast_metrics |->
            [ forecasted_new_cases      |-> forecasted_cases(active),
              forecasted_workload_hours |-> forecasted_workload_hours,
              total_projected_hours     |->
                  RatAdd(current_workload_hours, forecasted_workload_hours) ],
          recommendations |->
            [ status |-> IF overloaded THEN "overloaded"
                         ELSE IF near THEN "near_capacity" ELSE "adequate",
              recommended_staff |->
                  IF overloaded
                  THEN RatInt(Rat(current_capacity_utilization.num,
                                  current_capacity_utilization.den * 100)) + 1
                  ELSE 1,
              priority_actions |->
                << IF active > 500 THEN "Prioriter aeldre sager"
                   ELSE "Fortsaet nuvaerende tempo",
                   IF near THEN "Overvej ekstra ressourcer"
                   ELSE "Nuvaerende kapacitet er tilstraekkelig" >> ] ]

forecast_capacity_planning ==
    \E now \in Nows, projekttype_navn \in TrendPatterns :
        /\ resp' = [endpoint |-> "capacity-planning", success |-> TRUE,
                    now |-> now, projekttype_navn |-> projekttype_navn,
                    data |-> capacity_planning(sager, projekttype_navn, now)]
        /\ UNCHANGED <<sager, projekt_tabeller, cache_tabeller>>

(* The rows of the processing-time reports: cases of two project types,    *)
(* finished-reported or open, created on day 100, with a finished-report   *)
(* date before or after the creation and with or without a closing date;   *)
(* and one each of a legacy-closed case, a case created before the window, *)
(* a case without creation date, a case of a type without name and a case  *)
(* without project.                                                        *)
TiderRows ==
    { SagMedDatoer(Val(t[1]), Val(t[2]), fa[1], fa[2], Val(100), fdato, adato) :
        t \in {<<1, "Separering">>, <<2, "Aaben Land">>},
        fa \in {<<Val(1), Val(0)>>, <<Val(0), Val(0)>>},
        fdato \in {NULL, Val(90), Val(131)},
        adato \in {NULL, Val(120)} }
    \cup
    { SagMedDatoer(Val(1), Val("Separering"), NULL, Val(-1), Val(100), NULL, Val(120)),
      SagMedDatoer(Val(1), Val("Separering"), Val(1), Val(0), Val(10), Val(131), NULL),
      SagMedDatoer(Val(1), Val("Separering"), Val(1), Val(0), NULL, Val(131), NULL),
      SagMedDatoer(Val(3), NULL, Val(1), Val(0), Val(100), Val(131), NULL),
      SagMedDatoer(NULL, NULL, Val(1), Val(0), Val(100), Val(131), NULL) }

InsertSagTider ==
    /\ Len(sager) < MaxSager
    /\ \E s \in TiderRows : sager' = Append(sager, s)
    /\ resp' = NoResp
    /\ UNCHANGED <<projekt_tabeller, cache_tabeller>>

NextTider == InsertSagTider \/ get_processing_times \/ forecast_capacity_planning

SpecTider == Init /\ [][NextTider]_vars

(* What the properties below read off the table. *)
IsCompleted(s) ==
    s.FaerdigmeldtInt = Val(1) \/ s.AfsluttetInt = Val(1) \/ s.AfsluttetInt = Val(-1)

HasCompletionDate(s) == s.FaerdigmeldingDato # NULL \/ s.AfsluttetDato # NULL

(* Days from creation to completion: the finished-report date when it is   *)
(* present, the closing date otherwise.                                    *)
DaysToCompletion(s) ==
    (IF s.FaerdigmeldingDato # NULL THEN s.FaerdigmeldingDato[1] ELSE s.AfsluttetDato[1])
        - s.OprettetDato[1]

(* The completed cases with a resolvable completion date, created in the   *)
(* year before the request.                                                *)
Measured ==
    {i \in DOMAIN sager :
        /\ IsCompleted(sager[i])
        /\ HasCompletionDate(sager[i])
        /\ sager[i].OprettetDato # NULL
        /\ sager[i].OprettetDato[1] >= resp.now - 365}

(* The cases of Measured that a project type of the given name owns and    *)
(* that pass the request's filter on the type.                             *)
MeasuredOfType(name) ==
    {i \in Measured :
        /\ sager[i].ProjekttypeID # NULL
        /\ sager[i].ProjektType = name
        /\ resp.projekttype_id # NULL => sager[i].ProjekttypeID = resp.projekttype_id}

MeasuredNamed ==
    {i \in Measured :
        resp.projekttype_navn # NULL =>
            ILikeContains(sager[i].ProjektType, resp.projekttype_navn[1]) = T3}

RECURSIVE SumDays(_)
SumDays(S) ==
    IF S = {} THEN 0
    ELSE LET i == CHOOSE j \in S : TRUE IN DaysToCompletion(sager[i]) + SumDays(S \ {i})

(* The mean of the days over a non-empty set of cases, as an integer       *)
(* truncated toward zero.                                                  *)
MeanDays(S) ==
    LET t == SumDays(S)
        n == Cardinality(S)
    IN  IF t >= 0 THEN t \div n ELSE 0 - ((0 - t) \div n)

(* C12: records whose completion date precedes their creation date are     *)
(* excluded from the processing-time averages, per category and overall:   *)
(* no reported average is negative, each is the mean over the records with *)
(* a non-negative processing time, and when every measured record is       *)
(* negative no number is reported.                                         *)
C12_NegativeTimesExcluded ==
    (resp.endpoint = "sagsbehandlingstider" /\ resp.success) =>
        LET NonNegative(S) == {i \in S : DaysToCompletion(sager[i]) >= 0}
            overall == NonNegative(Measured)
        IN  /\ overall # {} => resp.data.overall_average_days = MeanDays(overall)
            /\ (overall = {} /\ Measured # {}) => resp.data.overall_average_days \notin Int
            /\ \A item \in resp.data.by_projekttype :
                  LET group == NonNegative(MeasuredOfType(item.projekttype))
                  IN  /\ group # {}
                      /\ item.average_days = MeanDays(group)

(* C13: the processing-time average ranges only over completed records     *)
(* with a resolvable completion date, taking the finished-report date when *)
(* present and the closing date otherwise; a completed record lacking both *)
(* dates contributes nothing.                                              *)
C13_AverageOverCompletedWithDate ==
    /\ (resp.endpoint = "sagsbehandlingstider" /\ resp.success) =>
          /\ resp.data.overall_average_days =
                IF Measured = {} THEN 0 ELSE MeanDays(Measured)
          /\ \A item \in resp.data.by_projekttype :
                LET group == MeasuredOfType(item.projekttype)
                IN  /\ group # {}
                    /\ MeanDays(group) >= 0 => item.average_days = MeanDays(group)
          /\ \A i \in Measured :
                (sager[i].ProjekttypeID # NULL /\
                 (resp.projekttype_id # NULL => sager[i].ProjekttypeID = resp.projekttype_id))
                => \E item \in resp.data.by_projekttype :
                      item.projekttype = sager[i].ProjektType
    /\ resp.endpoint = "capacity-planning" =>
          /\ MeasuredNamed = {} => resp.data.current_metrics.avg_processing_days = 85
          /\ (MeasuredNamed # {} /\ MeanDays(MeasuredNamed) # 0) =>
                resp.data.current_metrics.avg_processing_days = MeanDays(MeasuredNamed)

(* A completed case without any completion date next to a completed case   *)
(* with both dates, 31 days to its finished report and 20 to its closing.  *)
C13_Witness ==
    /\ resp.endpoint = "sagsbehandlingstider"
    /\ resp.success
    /\ \E i \in DOMAIN sager : IsCompleted(sager[i]) /\ ~HasCompletionDate(sager[i])
    /\ \E j \in DOMAIN sager :
          /\ IsCompleted(sager[j])
          /\ sager[j].FaerdigmeldingDato = Val(131)
          /\ sager[j].AfsluttetDato = Val(120)
    /\ resp.data.overall_average_days = 31

----------------------------------------------------------------------------
(* GET /api/forecasts/monthly-cases: forecast_monthly_cases *)

(* The elements of a finite set of integers in ascending order. *)
RECURSIVE order_by(_)
order_by(S) ==
    IF S = {} THEN <<>>
    ELSE LET lo == CHOOSE x \in S : \A y \in S : x <= y
         IN  <<lo>> \o order_by(S \ {lo})

(* historical_data: the cases created since start_date counted per (year,  *)
(* month), ordered by year and month.                                      *)
historical_data(rows, projekttype_navn, start_date) ==
    LET sel == {i \in DOMAIN rows :
                    and_(<< projekttype_filter(rows[i], projekttype_navn),
                            SqlGe(rows[i].OprettetDato, Val(start_date)) >>) = T3}
        key == [i \in sel |-> ExtractYear(rows[i].OprettetDato)[1] * 12
                                + ExtractMonth(rows[i].OprettetDato)[1] - 1]
        keys == order_by({key[i] : i \in sel})
    IN  [k \in DOMAIN keys |->
            [ year  |-> keys[k] \div 12,
              month |-> (keys[k] % 12) + 1,
              cases |-> Cardinality({i \in sel : key[i] = keys[k]}) ]]

(* monthly_cases: the rows of historical_data numbered from 1 *)
monthly_cases(historical) ==
    [i \in DOMAIN historical |->
        [ year       |-> historical[i].year,
          month      |-> historical[i].month,
          month_name |-> month_abbr[historical[i].month],
          cases      |-> historical[i].cases,
          period     |-> i ]]

(* int(max(0, f)) of a forecast f; a forecast whose exact value is a       *)
(* positive integer may come out of the floating-point regression just     *)
(* below it, and then truncates to one less (deficit = 1).                 *)
forecast_int(f, deficit) ==
    IF f.num <= 0 THEN 0
    ELSE IF f.num % f.den = 0 THEN (f.num \div f.den) - deficit
    ELSE f.num \div f.den

(* calculate_linear_trend: the least-squares line through (x, y), its      *)
(* R^2 and its values at the periods_ahead periods after max(x).  When all *)
(* y are equal R^2 is 0/0 and sklearn reports r2_constant, 1.0 or 0.0      *)
(* according to the rounding of the residuals.                             *)
calculate_linear_trend(x_data, y_data, periods_ahead, r2_constant) ==
    IF Len(x_data) < 2 \/ Len(y_data) < 2
    THEN [trend |-> "insufficient_data", forecasts |-> <<>>, confidence |-> Rat(0, 1)]
    ELSE LET n == Len(x_data)
             Sx == sum(x_data)
             Sy == sum(y_data)
             Sxx == sum([i \in 1..n |-> x_data[i] * x_data[i]])
             Syy == sum([i \in 1..n |-> y_data[i] * y_data[i]])
             Sxy == sum([i \in 1..n |-> x_data[i] * y_data[i]])
             cov == n * Sxy - Sx * Sy
             varx == n * Sxx - Sx * Sx
             vary == n * Syy - Sy * Sy
             slope == Rat(cov, varx)
             r_squared == IF vary = 0 THEN Rat(r2_constant, 1) ELSE Rat(cov * cov, varx * vary)
             max_x == CHOOSE m \in {x_data[i] : i \in 1..n} : \A i \in 1..n : x_data[i] <= m
             predict(x) == Rat(Sy * varx - cov * Sx + cov * x * n, n * varx)
         IN  [ trend      |-> IF RatGt(slope, Rat(1, 10)) THEN "increasing"
                              ELSE IF RatLt(slope, Rat(-1, 10)) THEN "decreasing"
                              ELSE "stable",
               slope      |-> slope,
               r_squared  |-> r_squared,
               forecasts  |-> [i \in 1..periods_ahead |->
                                  LET f == predict(max_x + i)
                                  IN  IF f.num < 0 THEN Rat(0, 1) ELSE f],
               confidence |-> Rat(r_squared.num * 100, r_squared.den) ]

(* forecast_periods: one entry per month ahead of now *)
forecast_periods(trend_analysis, months_ahead, now, deficit) ==
    [i \in 1..months_ahead |->
        LET future_date == relativedelta_months(now, i)
        IN  [ year             |-> YearOf(future_date),
              month            |-> MonthOf(future_date),
              month_name       |-> month_abbr[MonthOf(future_date)],
              forecasted_cases |->
                  IF i <= Len(trend_analysis.forecasts)
                  THEN forecast_int(trend_analysis.forecasts[i], deficit) ELSE 0,
              confidence       |-> trend_analysis.confidence ]]

(* seasonal_factors: with at least 12 historical months, per calendar      *)
(* month its average count over the overall average; else empty.          *)
seasonal_factors(cases, y_data) ==
    IF Len(y_data) >= 12
    THEN LET months == {cases[i].month : i \in DOMAIN cases}
             monthly_avg == [m \in months |->
                 sum([i \in DOMAIN cases |-> IF cases[i].month = m THEN cases[i].cases ELSE 0])]
             monthly_counts == [m \in months |->
                 Cardinality({i \in DOMAIN cases : cases[i].month = m})]
         IN  [m \in months |->
                 IF sum(y_data) > 0
                 THEN Rat(monthly_avg[m] * Len(y_data), monthly_counts[m] * sum(y_data))
                 ELSE Rat(1, 1)]
    ELSE <<>>

(* The handler up to its response; reading trend_analysis["slope"] or      *)
(* trend_analysis["r_squared"] raises KeyError when the dictionary has no  *)
(* such key.                                                               *)
monthly_forecast(rows, projekttype_navn, months_ahead, now, r2_constant, deficit) ==
    LET start_date == relativedelta_months(now, -24)
        cases == monthly_cases(historical_data(rows, projekttype_navn, start_date))
        x_data == [i \in DOMAIN cases |-> i]
        y_data == [i \in DOMAIN cases |-> cases[i].cases]
        trend_analysis == calculate_linear_trend(x_data, y_data, months_ahead, r2_constant)
        periods == forecast_periods(trend_analysis, months_ahead, now, deficit)
    IN  IF ~({"trend", "slope", "confidence", "r_squared"} \subseteq DOMAIN trend_analysis)
        THEN [success |-> FALSE, error |-> "KeyError"]
        ELSE [ success |-> TRUE,
               data |->
                 [ historical_data  |-> cases,
                   forecast_periods |-> periods,
                   trend_analysis   |->
                     [ direction  |-> trend_analysis.trend,
                       slope      |-> trend_analysis.slope,
                       confidence |-> trend_analysis.confidence,
                       r_squared  |-> trend_analysis.r_squared ],
                   seasonal_factors |-> seasonal_factors(cases, y_data),
                   summary |->
                     [ avg_monthly_cases      |-> IF y_data # <<>>
                                                  THEN Rat(sum(y_data), Len(y_data))
                                                  ELSE Rat(0, 1),
                       total_historical_cases |-> sum(y_data),
                       forecasted_total       |->
                           sum([i \in DOMAIN periods |-> periods[i].forecasted_cases]),
                       data_quality           |-> IF Len(y_data) >= 12 THEN "good"
                                                  ELSE "limited" ] ] ]

MonthsAhead == {6}

forecast_monthly_cases ==
    \E now \in Nows, projekttype_navn \in TrendPatterns, months_ahead \in MonthsAhead,
       r2_constant \in {0, 1}, deficit \in {0, 1} :
        /\ resp' = [endpoint |-> "monthly-cases", now |-> now,
                    projekttype_navn |-> projekttype_navn]
                   @@ monthly_forecast(sager, projekttype_navn, months_ahead, now,
                                       r2_constant, deficit)
        /\ UNCHANGED <<sager, projekt_tabeller, cache_tabeller>>

(* The aggregations over tables built like those of the seasonal analysis, *)
(* the empty table among them.                                             *)
NextForecast ==
    \/ get_separering_stats
    \/ get_aabenland_stats
    \/ get_dispensationssag_stats
    \/ get_nedsivningstilladelse_stats
    \/ get_monthly_trends
    \/ analyze_seasonal_patterns
    \/ forecast_monthly_cases

(* Tables with 0, 1, 2, 3 or 12 historical months. *)
InitForecast ==
    /\ \E n \in {0, 1, 2, 3, 12}, c \in 1..MaxPerMonth, e \in {0, 1, 2},
          typed \in {0, 12}, old \in BOOLEAN :
          sager = SeasonalTable([m \in 1..12 |-> (IF m <= n THEN c ELSE 0) + (IF m = e THEN 1 ELSE 0)],
                                typed, 1)
                  \o (IF old THEN OldRows ELSE <<>>)
    /\ resp = NoResp
    /\ projekter = <<>>
    /\ projekttyper = {}
    /\ anmodninger = <<>>
    /\ cache_init

SpecForecast == InitForecast /\ [][NextForecast]_vars

(* The (year, month) pairs in which a case that the forecast request       *)
(* selects was created.                                                    *)
HistoricalMonths ==
    LET start == relativedelta_months(resp.now, -24)
        sel == {i \in DOMAIN sager :
                    /\ sager[i].OprettetDato # NULL
                    /\ sager[i].OprettetDato[1] >= start
                    /\ resp.projekttype_navn # NULL =>
                          ILikeContains(sager[i].ProjektType, resp.projekttype_navn[1]) = T3}
    IN  {<<YearOf(sager[i].OprettetDato[1]), MonthOf(sager[i].OprettetDato[1])>> : i \in sel}

(* C14: no aggregation raises on an empty input: without a matching case   *)
(* the stats endpoints return zero counts, the monthly trend 12 zero        *)
(* entries, the seasonal analysis index 1.0 for every month, and the       *)
(* monthly-cases forecast, given fewer than two historical months, returns *)
(* a response instead of failing.                                          *)
C14_NoRaiseOnEmptyInput ==
    /\ (resp.endpoint \in CategoryEndpoints /\ CategoryRows = {}) =>
          /\ resp.success
          /\ resp.data.total_projekttyper = 0
          /\ resp.data.active_projekter = 0
          /\ resp.data.total_projekter = 0
          /\ resp.data.total_haendelser = 0
          /\ resp.data.active_haendelser = 0
    /\ (resp.endpoint = "monthly_trends" /\ sager = <<>>) =>
          /\ resp.success
          /\ Len(resp.data.monthly_trends) = 12
          /\ \A m \in 1..12 : /\ resp.data.monthly_trends[m].created = 0
                              /\ resp.data.monthly_trends[m].completed = 0
    /\ (resp.endpoint = "seasonal-analysis" /\ sum(SeasonalTotals) = 0) =>
          /\ resp.success
          /\ \A m \in 1..12 : resp.data.monthly_patterns[m].seasonal_index = Rat(1, 1)
    /\ (resp.endpoint = "monthly-cases" /\ Cardinality(HistoricalMonths) < 2) =>
          resp.success

----------------------------------------------------------------------------
(* GET /api/dashboard/stats: get_dashboard_stats *)

afsluttede_sager_filter(s) ==
    or_(<< SqlEq(s.FaerdigmeldtInt, Val(1)),
           SqlEq(s.AfsluttetInt, Val(1)),
           SqlEq(s.AfsluttetInt, Val(-1)) >>)

afsluttede_sager(rows) == QueryCount(rows, afsluttede_sager_filter)

(* The active filter with only AfsluttetInt = 1 taken as closed. *)
aktive_sager_filter_uden_legacy(s) ==
    and_(<< or_(<< SqlNe(s.FaerdigmeldtInt, Val(1)), SqlIsNull(s.FaerdigmeldtInt) >>),
            or_(<< SqlNe(s.AfsluttetInt, Val(1)), SqlIsNull(s.AfsluttetInt) >>) >>)

aktive_sager_filter(s) ==
    and_(<< or_(<< SqlNe(s.FaerdigmeldtInt, Val(1)), SqlIsNull(s.FaerdigmeldtInt) >>),
            or_(<< SqlEq(s.AfsluttetInt, Val(0)), SqlIsNull(s.AfsluttetInt) >>) >>)

(* The active count stopping at the first closed row of the table. *)
RECURSIVE aktive_sager_indtil_afsluttet(_)
aktive_sager_indtil_afsluttet(rows) ==
    IF rows = <<>> \/ afsluttede_sager_filter(Head(rows)) = T3 THEN 0
    ELSE (IF aktive_sager_filter(Head(rows)) = T3 THEN 1 ELSE 0)
         + aktive_sager_indtil_afsluttet(Tail(rows))

aktive_sager(rows) == QueryCount(rows, aktive_sager_filter)

sager_oprettet_seneste_aar(rows, now) ==
    LET one_year_ago == now - 365
        Cond(s) == SqlGe(s.OprettetDato, Val(one_year_ago))
    IN  QueryCount(rows, Cond)

aktive_sager_med_paabud_filter(s) ==
    and_(<< or_(<< SqlNe(s.FaerdigmeldtInt, Val(1)), SqlIsNull(s.FaerdigmeldtInt) >>),
            or_(<< SqlEq(s.AfsluttetInt, Val(0)), SqlIsNull(s.AfsluttetInt) >>),
            SqlEq(s.Paabud, Val("Ja")) >>)

aktive_sager_med_paabud(rows) == QueryCount(rows, aktive_sager_med_paabud_filter)

stats(rows, now) ==
    [ total_projekttyper     |-> afsluttede_sager(rows),
      active_projekter       |-> aktive_sager(rows),
      total_projekter        |-> sager_oprettet_seneste_aar(rows, now),
      total_haendelser       |-> aktive_sager_med_paabud(rows),
      pending_sagsbehandling |-> 0,
      recent_imports         |-> 0 ]

get_dashboard_stats ==
    \E now \in Nows :
        /\ resp' = [endpoint |-> "dashboard", success |-> TRUE, now |-> now,
                    data |-> stats(sager, now)]
        /\ UNCHANGED <<sager, projekt_tabeller, cache_tabeller>>

(* Rows with every combination of the two status flags, with or without an *)
(* order.                                                                  *)
InsertSagDashboard ==
    InsertSag({NULL}, FlagValues, FlagValues, PaabudValues, {NULL}, {Val(100)}, {NULL})

NextDashboard == InsertSagDashboard \/ get_dashboard_stats

SpecDashboard == Init /\ [][NextDashboard]_vars

C26_FinishedAndActiveDisjoint ==
    resp.endpoint = "dashboard" =>
        resp.data.total_projekttyper + resp.data.active_projekter <= Len(sager)

(* A case with both flags NULL counted as active beside a case closed with *)
(* the legacy value, counted as finished.                                  *)
C26_Witness ==
    /\ resp.endpoint = "dashboard"
    /\ Len(sager) = 2
    /\ sager[1].FaerdigmeldtInt = NULL /\ sager[1].AfsluttetInt = NULL
    /\ sager[2].FaerdigmeldtInt = NULL /\ sager[2].AfsluttetInt = Val(-1)
    /\ resp.data.total_projekttyper = 1
    /\ resp.data.active_projekter = 1

----------------------------------------------------------------------------
(* The case endpoints of api/sager.py: POST /api/sager (create_sag),       *)
(* PUT /api/sager/{id} (update_sag), PATCH /api/sager/{id}/status          *)
(* (update_sag_status).  The row with Id i is sager[i].  A request body is *)
(* a record of the fields the client has set (model_dump with              *)
(* exclude_unset), a field set to null carrying NULL.                      *)

(* AMOProjekt row and AMOProjekttype row, by primary key. *)
Projekt(id, projekttype_id) == [Id |-> id, ProjekttypeID |-> projekttype_id]

Projekttype(id) == [ID |-> id]

(* validate_projekt_exists: TRUE when it returns, FALSE when it raises 404. *)
validate_projekt_exists(projekt_id, rows) ==
    \E i \in DOMAIN rows : Val(rows[i].Id) = projekt_id

(* The row a deleted case leaves behind: its Id is not used again. *)
Slettet == [Slettet |-> TRUE]

(* db.query(AMOSagsbehandling).filter(AMOSagsbehandling.Id == id).first()  *)
(* finds a row.                                                            *)
sag_findes(rows, id) == id \in DOMAIN rows /\ rows[id] # Slettet

(* The value of a body field, None when the client has not set it. *)
BodyGet(body, field) == IF field \in DOMAIN body THEN body[field] ELSE NULL

(* The row create_sag builds from the request body. *)
db_sag(sag_data, now) ==
    [ ProjektID          |-> sag_data.ProjektID,
      Bemaerkning        |-> sag_data.Bemaerkning,
      OprettetDato       |-> IF sag_data.OprettetDato # NULL
                                THEN sag_data.OprettetDato ELSE Val(now),
      AfsluttetDato      |-> sag_data.AfsluttetDato,
      Afsluttet          |-> sag_data.Afsluttet,
      AfsluttetInt       |-> sag_data.AfsluttetInt,
      Faerdigmeldt       |-> IF sag_data.Faerdigmeldt \notin {NULL, Val("")}
                                THEN sag_data.Faerdigmeldt ELSE Val("Nej"),
      FaerdigmeldtInt    |-> IF sag_data.FaerdigmeldtInt \notin {NULL, Val(0)}
                                THEN sag_data.FaerdigmeldtInt ELSE Val(0),
      FaerdigmeldingDato |-> sag_data.FaerdigmeldingDato,
      AfslutUdenFaerdigmelding |-> sag_data.AfslutUdenFaerdigmelding,
      Paabud             |-> IF sag_data.Paabud \notin {NULL, Val("")}
                                THEN sag_data.Paabud ELSE Val("Nej"),
      Paabudsfrist       |-> sag_data.Paabudsfrist ]

(* Bound on the number of cases created. *)
MaxCases == 1

(* SagCreate bodies: an existing and a missing project, with and without   *)
(* a creation date and a finished-report flag.                             *)
SagCreateBodies ==
    [ ProjektID          : {Val(1), Val(2)},
      Bemaerkning        : {Val("sag")},
      OprettetDato       : {NULL, Val(50)},
      AfsluttetDato      : {NULL},
      Afsluttet          : {NULL},
      AfsluttetInt       : {NULL},
      Faerdigmeldt       : {NULL},
      FaerdigmeldtInt    : {NULL, Val(1)},
      FaerdigmeldingDato : {NULL},
      AfslutUdenFaerdigmelding : {NULL},
      Paabud             : {NULL},
      Paabudsfrist       : {NULL} ]

create_sag_med(bodies) ==
    \E sag_data \in bodies, now \in Nows :
        /\ Len(sager) < MaxCases
        /\ IF validate_projekt_exists(sag_data.ProjektID, projekter)
           THEN /\ sager' = Append(sager, db_sag(sag_data, now))
                /\ resp' = [endpoint |-> "create_sag", status_code |-> 201,
                            data |-> db_sag(sag_data, now)]
           ELSE /\ sager' = sager
                /\ resp' = [endpoint |-> "create_sag", status_code |-> 404]
        /\ UNCHANGED <<projekt_tabeller, cache_tabeller>>

create_sag == create_sag_med(SagCreateBodies)

SagIds == 1..(MaxCases + 1)

(* SagUpdate bodies. *)
SagUpdateBodies ==
    { [FaerdigmeldtInt |-> Val(0)],
      [FaerdigmeldtInt |-> Val(1)],
      [FaerdigmeldingDato |-> NULL],
      [OprettetDato |-> Val(70)],
      [ProjektID |-> Val(2)],
      [ProjektID |-> Val(1), Paabud |-> Val("Ja")] }

(* for field, value in update_data.items(): setattr(db_sag, field, value) *)
setattr_all(row, update_data) ==
    [field \in DOMAIN row |->
        IF field \in DOMAIN update_data THEN update_data[field] ELSE row[field]]

update_sag_med(bodies) ==
    \E id \in SagIds, sag_data \in bodies :
        /\ IF ~sag_findes(sager, id)
           THEN /\ sager' = sager
                /\ resp' = [endpoint |-> "update_sag", id |-> id, status_code |-> 404]
           ELSE IF /\ BodyGet(sag_data, "ProjektID") # NULL
                   /\ ~validate_projekt_exists(sag_data.ProjektID, projekter)
           THEN /\ sager' = sager
                /\ resp' = [endpoint |-> "update_sag", id |-> id, status_code |-> 404]
           ELSE /\ sager' = [sager EXCEPT ![id] = setattr_all(sager[id], sag_data)]
                /\ resp' = [endpoint |-> "update_sag", id |-> id, status_code |-> 200,
                            data |-> setattr_all(sager[id], sag_data)]
        /\ UNCHANGED <<projekt_tabeller, cache_tabeller>>

update_sag == update_sag_med(SagUpdateBodies)

(* The check of the finished-report flag with every value let through. *)
faerdigmeldt_int_gyldig_alle(faerdigmeldt_int) == TRUE

(* faerdigmeldt_int in [0, 1] *)
faerdigmeldt_int_gyldig(faerdigmeldt_int) == faerdigmeldt_int \in {Val(0), Val(1)}

(* The assignments of update_sag_status to the row, the flag being valid. *)
status_workflow(row, update_data, now) ==
    LET flagged ==
            IF "FaerdigmeldtInt" \in DOMAIN update_data
            THEN LET faerdigmeldt_int == update_data.FaerdigmeldtInt
                 IN  [row EXCEPT
                        !.FaerdigmeldtInt = faerdigmeldt_int,
                        !.Faerdigmeldt =
                            IF faerdigmeldt_int = Val(1) THEN Val("Ja") ELSE Val("Nej"),
                        !.FaerdigmeldingDato =
                            IF faerdigmeldt_int = Val(1) /\ row.FaerdigmeldingDato = NULL
                            THEN Val(now) ELSE row.FaerdigmeldingDato]
            ELSE row
        paabud ==
            IF "Paabud" \in DOMAIN update_data
            THEN [flagged EXCEPT !.Paabud = update_data.Paabud] ELSE flagged
    IN  IF "Paabudsfrist" \in DOMAIN update_data
        THEN [paabud EXCEPT !.Paabudsfrist = update_data.Paabudsfrist] ELSE paabud

(* SagStatusUpdate bodies: the flag unset, null, 0, 1 or 2, alone or with  *)
(* an order and its deadline.                                             *)
EmptyBody == [field \in {} |-> NULL]

SagStatusUpdateBodies ==
    { flag @@ paabud :
        flag \in { EmptyBody, [FaerdigmeldtInt |-> NULL], [FaerdigmeldtInt |-> Val(0)],
                   [FaerdigmeldtInt |-> Val(1)], [FaerdigmeldtInt |-> Val(2)] },
        paabud \in { EmptyBody, [Paabud |-> Val("Ja"), Paabudsfrist |-> Val(500)] } }

update_sag_status_med(bodies) ==
    \E id \in SagIds, status_data \in bodies, now \in Nows :
        LET request == [endpoint |-> "update_sag_status", id |-> id,
                        status_data |-> status_data]
        IN  /\ IF ~sag_findes(sager, id)
               THEN /\ sager' = sager
                    /\ resp' = request @@ [status_code |-> 404]
               ELSE IF /\ "FaerdigmeldtInt" \in DOMAIN status_data
                       /\ ~faerdigmeldt_int_gyldig(status_data.FaerdigmeldtInt)
               THEN /\ sager' = sager
                    /\ resp' = request @@ [status_code |-> 400]
               ELSE /\ sager' = [sager EXCEPT
                                    ![id] = status_workflow(sager[id], status_data, now)]
                    /\ resp' = request @@
                                 [status_code |-> 200,
                                  data |-> status_workflow(sager[id], status_data, now)]
            /\ UNCHANGED <<projekt_tabeller, cache_tabeller>>

update_sag_status == update_sag_status_med(SagStatusUpdateBodies)

InitSager ==
    /\ sager = <<>>
    /\ resp = NoResp
    /\ projekttyper = {Projekttype(1)}
    /\ projekter = <<Projekt(1, Val(1))>>
    /\ anmodninger = <<>>
    /\ cache_init

NextSager == create_sag \/ update_sag \/ update_sag_status

SpecSager == InitSager /\ [][NextSager]_vars

(* C16: in every state reached by create_sag, update_sag and               *)
(* update_sag_status the finished-report date of a case is set if and only *)
(* if its finished-report flag is 1; a case marked finished and then set   *)
(* back to 0 keeps no finished-report date.                               *)
C16_FinishedDateIffFinishedFlag ==
    \A i \in DOMAIN sager :
        (sager[i].FaerdigmeldingDato # NULL) <=> (sager[i].FaerdigmeldtInt = Val(1))

(* C17: the creation timestamp of a case is never changed by an operation  *)
(* after its creation.                                                     *)
C17_OprettetDatoImmutable ==
    [][\A i \in DOMAIN sager : sager'[i].OprettetDato = sager[i].OprettetDato]_vars

(* C18: update_sag_status on an existing case with a FaerdigmeldtInt       *)
(* supplied answers 400 and leaves every case as it was, the order fields  *)
(* of the same request included, when the value is not 0 or 1, and         *)
(* otherwise succeeds and stores the value.                                *)
C18_StatusFlagValidated ==
    [][ ( /\ resp'.endpoint = "update_sag_status"
          /\ resp'.id \in DOMAIN sager
          /\ "FaerdigmeldtInt" \in DOMAIN resp'.status_data )
        => IF resp'.status_data.FaerdigmeldtInt \in {Val(0), Val(1)}
           THEN /\ resp'.status_code = 200
                /\ sager'[resp'.id].FaerdigmeldtInt = resp'.status_data.FaerdigmeldtInt
           ELSE /\ resp'.status_code = 400
                /\ sager' = sager ]_vars

(* A request with FaerdigmeldtInt 2 and an order was refused, and the case *)
(* does not carry the order.                                               *)
C18_Witness ==
    /\ resp.endpoint = "update_sag_status"
    /\ resp.status_code = 400
    /\ resp.status_data.FaerdigmeldtInt = Val(2)
    /\ "Paabud" \in DOMAIN resp.status_data
    /\ sager[resp.id].Paabud # resp.status_data.Paabud
    /\ sager[resp.id].Paabudsfrist # resp.status_data.Paabudsfrist

----------------------------------------------------------------------------
(* GET /api/reports/monthly: get_monthly_overview.  The timestamps of this *)
(* endpoint count half days from 1 January of BaseYear, so that a case has *)
(* a time of day: midnight or noon.                                        *)

TicksPerDay == 2

(* datetime(year, month, day), midnight, and timedelta(days=n). *)
datetime_midnight(year, month, day) == datetime(year, month, day) * TicksPerDay

timedelta_days(n) == n * TicksPerDay

(* The year and month of a timestamp with a time of day. *)
year_of(t) == YearOf(t \div TicksPerDay)

month_of(t) == MonthOf(t \div TicksPerDay)

(* func.max(extract('year', OprettetDato)).scalar() *)
overview_most_recent(rows) ==
    LET years == {year_of(rows[i].OprettetDato[1]) :
                    i \in {j \in DOMAIN rows : rows[j].OprettetDato # NULL}}
    IN  IF years = {} THEN NULL
        ELSE Val(CHOOSE y \in years : \A z \in years : z <= y)

created_cases_filter(s, projekttype_navn, from_date, to_date) ==
    and_(<< projekttype_filter(s, projekttype_navn),
            SqlGe(s.OprettetDato, Val(from_date)),
            SqlLe(s.OprettetDato, Val(to_date)) >>)

completed_cases_filter(s, projekttype_navn, from_date, to_date) ==
    and_(<< projekttype_filter(s, projekttype_navn),
            or_(<< and_(<< SqlGe(s.FaerdigmeldingDato, Val(from_date)),
                           SqlLe(s.FaerdigmeldingDato, Val(to_date)),
                           SqlEq(s.FaerdigmeldtInt, Val(1)) >>),
                   and_(<< SqlGe(s.AfsluttetDato, Val(from_date)),
                           SqlLe(s.AfsluttetDato, Val(to_date)),
                           or_(<< SqlEq(s.AfsluttetInt, Val(1)),
                                  SqlEq(s.AfsluttetInt, Val(-1)) >>) >>) >>) >>)

active_cases_filter(s, projekttype_navn) ==
    and_(<< projekttype_filter(s, projekttype_navn),
            and_(<< or_(<< SqlNe(s.FaerdigmeldtInt, Val(1)),
                           SqlIsNull(s.FaerdigmeldtInt) >>),
                    or_(<< SqlEq(s.AfsluttetInt, Val(0)),
                           SqlIsNull(s.AfsluttetInt) >>) >>) >>)

monthly_overview(rows, year_param, month_param, projekttype_navn, now) ==
    LET year == IF year_param # NULL THEN year_param[1]
                ELSE IF overview_most_recent(rows) # NULL
                     THEN overview_most_recent(rows)[1]
                ELSE year_of(now)
        month == IF month_param # NULL THEN month_param[1]
                 ELSE IF year < year_of(now) THEN 6 ELSE month_of(now)
        start_date == datetime_midnight(year, month, 1)
        end_date == IF month = 12
                    THEN datetime_midnight(year + 1, 1, 1) - timedelta_days(1)
                    ELSE datetime_midnight(year, month + 1, 1) - timedelta_days(1)
        year_start == datetime_midnight(year, 1, 1)
        created_in_month(s) == created_cases_filter(s, projekttype_navn, start_date, end_date)
        created_in_year(s) == created_cases_filter(s, projekttype_navn, year_start, now)
        completed_in_month(s) ==
            completed_cases_filter(s, projekttype_navn, start_date, end_date)
        completed_in_year(s) == completed_cases_filter(s, projekttype_navn, year_start, now)
        active(s) == active_cases_filter(s, projekttype_navn)
        created_cases == IF QueryCount(rows, created_in_month) = 0
                         THEN QueryCount(rows, created_in_year)
                         ELSE QueryCount(rows, created_in_month)
        completed_cases == IF QueryCount(rows, completed_in_month) = 0
                           THEN QueryCount(rows, completed_in_year)
                           ELSE QueryCount(rows, completed_in_month)
    IN  [ year            |-> year,
          month           |-> month,
          month_name      |-> month_name[month],
          created_cases   |-> created_cases,
          completed_cases |-> completed_cases,
          active_cases    |-> QueryCount(rows, active),
          completion_rate |-> completion_rate(completed_cases,
                                              created_cases + completed_cases) ]

(* The requests: noon of 4 February of the year after BaseYear; that year  *)
(* or none; January or none.                                               *)
OverviewNows == {datetime_midnight(BaseYear + 1, 2, 4) + 1}

OverviewYears == {NULL, Val(BaseYear + 1)}

OverviewMonths == {NULL, Val(1)}

get_monthly_overview ==
    \E now \in OverviewNows, year \in OverviewYears, month \in OverviewMonths,
       projekttype_navn \in TrendPatterns :
        /\ resp' = [endpoint |-> "monthly", success |-> TRUE,
                    projekttype_navn |-> projekttype_navn,
                    data |-> monthly_overview(sager, year, month, projekttype_navn, now)]
        /\ UNCHANGED <<sager, projekt_tabeller, cache_tabeller>>

(* Cases of two types created on 10 January at midnight, on 31 January at  *)
(* noon, on 2 February at midnight (all of the year after BaseYear) or     *)
(* without a date; open, or finished-reported with a date of 31 January at *)
(* noon or without one.                                                    *)
OverviewRows ==
    { SagMedDatoer(Val(t[1]), Val(t[2]), fd[1], Val(0), oprettet, fd[2], NULL) :
        t \in {<<1, "Separering">>, <<2, "Aaben Land">>},
        fd \in { <<Val(0), NULL>>,
                 <<Val(1), Val(datetime_midnight(BaseYear + 1, 1, 31) + 1)>>,
                 <<Val(1), NULL>> },
        oprettet \in { NULL,
                       Val(datetime_midnight(BaseYear + 1, 1, 10)),
                       Val(datetime_midnight(BaseYear + 1, 1, 31) + 1),
                       Val(datetime_midnight(BaseYear + 1, 2, 2)) } }

InsertSagOverview ==
    /\ Len(sager) < MaxSager
    /\ \E s \in OverviewRows : sager' = Append(sager, s)
    /\ resp' = NoResp
    /\ UNCHANGED <<projekt_tabeller, cache_tabeller>>

NextOverview == InsertSagOverview \/ get_monthly_overview

SpecOverview == Init /\ [][NextOverview]_vars

(* C19: created_cases of the monthly overview is the number of cases (of   *)
(* the requested type) whose creation timestamp lies in the reported       *)
(* calendar month, from the first instant of its first day up to the first *)
(* instant of the next month; it is 0 when no case was created in the      *)
(* month.                                                                  *)
C19_CreatedCasesOfTheMonth ==
    resp.endpoint = "monthly" =>
        LET year == resp.data.year
            month == resp.data.month
            first == datetime_midnight(year, month, 1)
            next == IF month = 12 THEN datetime_midnight(year + 1, 1, 1)
                    ELSE datetime_midnight(year, month + 1, 1)
            created == {i \in DOMAIN sager :
                            /\ projekttype_filter(sager[i], resp.projekttype_navn) = T3
                            /\ sager[i].OprettetDato # NULL
                            /\ first <= sager[i].OprettetDato[1]
                            /\ sager[i].OprettetDato[1] < next}
        IN  resp.data.created_cases = Cardinality(created)

----------------------------------------------------------------------------
(* Requests to POST /api/projekter (create_projekt), PUT                   *)
(* /api/projekter/{id} (update_projekt) and DELETE /api/projekttyper/{id}  *)
(* (delete_projekttype), each database statement of a handler being one    *)
(* step, so that the statements of requests in flight interleave.          *)
(* anmodninger holds the requests received, each with its position in its  *)
(* handler and, once answered, its status code.                            *)

(* Bound on the number of requests. *)
MaxAnmodninger == 2

Anmodning(handler, id) == [handler |-> handler, id |-> id, pc |-> "start", status_code |-> 0]

(* The request answered. *)
Answer(k, code) ==
    anmodninger' = [anmodninger EXCEPT ![k].pc = "done", ![k].status_code = code]

Goto(k, pc) == anmodninger' = [anmodninger EXCEPT ![k].pc = pc]

At(k, handler, pc) == anmodninger[k].handler = handler /\ anmodninger[k].pc = pc

(* Project type ids and project ids of the requests; type 3 and project 3  *)
(* never exist.                                                            *)
RequestIds == {1, 2, 3}

receive ==
    /\ Len(anmodninger) < MaxAnmodninger
    /\ \E handler \in {"create_projekt", "update_projekt", "delete_projekttype"},
          id \in RequestIds :
            anmodninger' = Append(anmodninger, Anmodning(handler, id))
    /\ UNCHANGED <<sager, resp, projekter, projekttyper, cache_tabeller>>

(* validate_projekttype_exists: TRUE when it returns, FALSE when it raises *)
(* 404.                                                                    *)
validate_projekttype_exists(projekttype_id, rows) ==
    \E projekttype \in rows : projekttype.ID = projekttype_id

(* create_projekt: the validation query. *)
create_projekt_validate(k) ==
    /\ At(k, "create_projekt", "start")
    /\ IF validate_projekttype_exists(anmodninger[k].id, projekttyper)
       THEN Goto(k, "validated")
       ELSE Answer(k, 404)
    /\ UNCHANGED <<sager, resp, projekter, projekttyper, cache_tabeller>>

(* create_projekt: AMOProjekt(Navn=..., Status=..., OprettetDato=...,      *)
(* SidstOpdateret=...) names attributes the mapped class does not have;    *)
(* the constructor raises TypeError before db.add, answered with 500.      *)
create_projekt_construct(k) ==
    /\ At(k, "create_projekt", "validated")
    /\ Answer(k, 500)
    /\ UNCHANGED <<sager, resp, projekter, projekttyper, cache_tabeller>>

create_projekt == \E k \in DOMAIN anmodninger :
    create_projekt_validate(k) \/ create_projekt_construct(k)

(* update_projekt: its first statement reads AMOProjekt.ID, an attribute   *)
(* the mapped class does not have (the key is Id); AttributeError,         *)
(* answered with 500 before any statement reaches the database.            *)
update_projekt == \E k \in DOMAIN anmodninger :
    /\ At(k, "update_projekt", "start")
    /\ Answer(k, 500)
    /\ UNCHANGED <<sager, resp, projekter, projekttyper, cache_tabeller>>

(* The count of related projects without the projects. *)
related_projekter_ingen(rows, id) == 0

(* db.query(AMOProjekt).filter(AMOProjekt.ProjekttypeID == id).count() *)
related_projekter(rows, id) ==
    Cardinality({i \in DOMAIN rows : SqlEq(rows[i].ProjekttypeID, Val(id)) = T3})

(* delete_projekttype: the fetch of the row. *)
delete_projekttype_fetch(k) ==
    /\ At(k, "delete_projekttype", "start")
    /\ IF \E projekttype \in projekttyper : projekttype.ID = anmodninger[k].id
       THEN Goto(k, "fetched")
       ELSE Answer(k, 404)
    /\ UNCHANGED <<sager, resp, projekter, projekttyper, cache_tabeller>>

(* delete_projekttype: the count of related projects. *)
delete_projekttype_count(k) ==
    /\ At(k, "delete_projekttype", "fetched")
    /\ IF related_projekter(projekter, anmodninger[k].id) > 0
       THEN Answer(k, 409)
       ELSE Goto(k, "counted")
    /\ UNCHANGED <<sager, resp, projekter, projekttyper, cache_tabeller>>

(* delete_projekttype: db.delete and db.commit.  The flush empties the     *)
(* ProjekttypeID of the projects of the relationship AMOProjekttype        *)
(* .projekter (no delete cascade) and deletes the row; a row that another  *)
(* request has deleted meanwhile makes the flush raise (no row matched),   *)
(* answered with 500.                                                      *)
delete_projekttype_commit(k) ==
    /\ At(k, "delete_projekttype", "counted")
    /\ IF \E projekttype \in projekttyper : projekttype.ID = anmodninger[k].id
       THEN /\ projekttyper' = {projekttype \in projekttyper :
                                    projekttype.ID # anmodninger[k].id}
            /\ projekter' = [i \in DOMAIN projekter |->
                                IF projekter[i].ProjekttypeID = Val(anmodninger[k].id)
                                THEN [projekter[i] EXCEPT !.ProjekttypeID = NULL]
                                ELSE projekter[i]]
            /\ Answer(k, 204)
       ELSE /\ UNCHANGED <<projekter, projekttyper>>
            /\ Answer(k, 500)
    /\ UNCHANGED <<sager, resp, cache_tabeller>>

delete_projekttype == \E k \in DOMAIN anmodninger :
    \/ delete_projekttype_fetch(k)
    \/ delete_projekttype_count(k)
    \/ delete_projekttype_commit(k)

(* The databases the requests start from: project types 1 and 2 or only    *)
(* one of them, and up to two projects, each of an existing type.          *)
InitProjekter ==
    /\ sager = <<>>
    /\ resp = NoResp
    /\ anmodninger = <<>>
    /\ cache_init
    /\ \E ids \in (SUBSET {1, 2}) \ {{}} :
        /\ projekttyper = {Projekttype(id) : id \in ids}
        /\ \E n \in 0..2 : \E types \in [1..n -> ids] :
            projekter = [i \in 1..n |-> Projekt(i, Val(types[i]))]

NextProjekter == receive \/ create_projekt \/ update_projekt \/ delete_projekttype

SpecProjekter == InitProjekter /\ [][NextProjekter]_vars

----------------------------------------------------------------------------
(* The cached GET endpoints of api/sager.py, get_sag, list_sager and       *)
(* get_sag_haendelser, each under @cache(expire=300), next to the          *)
(* endpoints that change a case.  The decorator keeps a successful         *)
(* response under a key built from the handler and its keyword arguments,  *)
(* the database session among them, and serves it until it expires; a      *)
(* handler that raises stores nothing.                                     *)

(* @cache(expire=300) *)
expire == 300

(* Bound on the number of distinct texts of the session argument. *)
MaxSessions == 1

Sessions == 1..MaxSessions

(* Bound on the time. *)
MaxClock == 301

tick(seconds) ==
    /\ \E d \in seconds : clock + d <= MaxClock /\ clock' = clock + d
    /\ UNCHANGED <<sager, resp, projekt_tabeller, haendelser, cache, klient>>

cache_decorator(endpoint, args, response) ==
    \E db \in Sessions :
        LET key == <<endpoint, args, db>>
            request == [endpoint |-> endpoint, args |-> args]
        IN  /\ IF key \in DOMAIN cache /\ clock <= cache[key].ttl_ts
               THEN /\ resp' = request @@ cache[key].value @@ [x_fastapi_cache |-> "HIT"]
                    /\ cache' = cache
               ELSE /\ resp' = request @@ response @@ [x_fastapi_cache |-> "MISS"]
                    /\ cache' =
                        IF response.status_code = 200
                        THEN (key :> [value |-> response, ttl_ts |-> clock + expire]) @@ cache
                        ELSE [k \in DOMAIN cache \ {key} |-> cache[k]]
            /\ UNCHANGED <<sager, projekt_tabeller, haendelser, clock, klient>>

(* The body of get_sag. *)
get_sag_response(rows, id) ==
    IF sag_findes(rows, id)
    THEN [status_code |-> 200, success |-> TRUE, data |-> rows[id]]
    ELSE [status_code |-> 404]

get_sag == \E id \in SagIds : cache_decorator("get_sag", Val(id), get_sag_response(sager, id))

(* The status filter of list_sager. *)
list_sager_filter(s, faerdigmeldt) ==
    IF faerdigmeldt = NULL THEN T3
    ELSE IF faerdigmeldt = Val(0)
    THEN and_(<< SqlNe(coalesce(s.FaerdigmeldtInt, Val(0)), Val(1)),
                 SqlNe(coalesce(s.AfsluttetInt, Val(0)), Val(1)),
                 SqlNe(coalesce(s.AfsluttetInt, Val(0)), Val(-1)) >>)
    ELSE IF faerdigmeldt = Val(-1)
    THEN or_(<< SqlEq(s.AfsluttetInt, Val(1)), SqlEq(s.AfsluttetInt, Val(-1)) >>)
    ELSE SqlEq(s.FaerdigmeldtInt, faerdigmeldt)

(* The rows list_sager selects: the status filter and the join and filter *)
(* on the project type's name.                                             *)
list_sager_selected(rows, faerdigmeldt, projekttype_navn) ==
    {id \in DOMAIN rows :
        /\ rows[id] # Slettet
        /\ and_(<< list_sager_filter(rows[id], faerdigmeldt),
                   projekttype_filter(rows[id], projekttype_navn) >>) = T3}

(* query.order_by(desc(Id)): the Ids of the selected rows, largest first. *)
RECURSIVE list_sager_query(_, _, _, _)
list_sager_query(rows, faerdigmeldt, projekttype_navn, id) ==
    IF id = 0 THEN <<>>
    ELSE IF id \in list_sager_selected(rows, faerdigmeldt, projekttype_navn)
    THEN <<id>> \o list_sager_query(rows, faerdigmeldt, projekttype_navn, id - 1)
    ELSE list_sager_query(rows, faerdigmeldt, projekttype_navn, id - 1)

(* paginate(query, page, per_page) with max_per_page = 100. *)
paginate(query, page_param, per_page_param) ==
    LET per_page == Min(Max(1, per_page_param), 100)
        page == Max(1, page_param)
        total == Len(query)
        offset == (page - 1) * per_page
    IN  [ items |-> SubSeq(query, offset + 1, Min(offset + per_page, total)),
          pagination |-> [ page |-> page, per_page |-> per_page, total |-> total,
                           total_pages |-> IF total > 0
                                           THEN (total + per_page - 1) \div per_page
                                           ELSE 1 ] ]

(* The body of list_sager with the default sort. *)
list_sager_response(rows, faerdigmeldt, projekttype_navn, page, per_page) ==
    LET paged == paginate(list_sager_query(rows, faerdigmeldt, projekttype_navn, Len(rows)),
                          page, per_page)
    IN  [ status_code |-> 200, success |-> TRUE,
          data |-> [n \in DOMAIN paged.items |->
                        [Id |-> paged.items[n]] @@ rows[paged.items[n]]],
          pagination |-> paged.pagination ]

list_sager_med(faerdigmeldter, projekttype_navne) ==
    \E faerdigmeldt \in faerdigmeldter, projekttype_navn \in projekttype_navne :
        cache_decorator("list_sager", <<faerdigmeldt, projekttype_navn>>,
                        list_sager_response(sager, faerdigmeldt, projekttype_navn, 1, 50))

list_sager == list_sager_med({NULL}, {NULL})

(* The body of get_sag_haendelser: the events of the case that are not     *)
(* hidden, newest first.                                                   *)
get_sag_haendelser_response(rows, events, id) ==
    IF ~sag_findes(rows, id) THEN [status_code |-> 404]
    ELSE LET shown == {n \in DOMAIN events :
                        /\ SqlEq(events[n].SagsID, Val(id)) = T3
                        /\ or_(<< SqlEq(events[n].Skjul, Val(FALSE)),
                                  SqlIsNull(events[n].Skjul) >>) = T3}
         IN  [ status_code |-> 200, success |-> TRUE,
               data |-> order_by({<<events[n].Dato, n>> : n \in shown}),
               count |-> Cardinality(shown) ]

get_sag_haendelser ==
    \E id \in SagIds :
        cache_decorator("get_sag_haendelser", Val(id),
                        get_sag_haendelser_response(sager, haendelser, id))

delete_sag ==
    \E id \in SagIds :
        /\ IF ~sag_findes(sager, id)
           THEN /\ sager' = sager
                /\ resp' = [endpoint |-> "delete_sag", id |-> id, status_code |-> 404]
           ELSE /\ sager' = [sager EXCEPT ![id] = Slettet]
                /\ resp' = [endpoint |-> "delete_sag", id |-> id, status_code |-> 204]
        /\ UNCHANGED <<projekt_tabeller, cache_tabeller>>

(* The requests that change a case: one create body, an order set by PUT,  *)
(* the finished-report flag set by PATCH.                                  *)
CacheCreateBodies ==
    {body \in SagCreateBodies :
        /\ body.ProjektID = Val(1)
        /\ body.OprettetDato = Val(50)
        /\ body.FaerdigmeldtInt = NULL}

NextCache ==
    \/ create_sag_med(CacheCreateBodies)
    \/ update_sag_med({[Paabud |-> Val("Ja")]})
    \/ update_sag_status_med({[FaerdigmeldtInt |-> Val(1)]})
    \/ delete_sag
    \/ get_sag
    \/ list_sager
    \/ get_sag_haendelser
    \/ tick({expire + 1})

SpecCache == InitSager /\ [][NextCache]_vars

(* C21: a response of get_sag, list_sager or get_sag_haendelser is what    *)
(* the handler computes from the table as it is when the request is        *)
(* answered: no response cached before a successful create, update,        *)
(* status update or delete is served after it.                            *)
C21_NoStaleResponseAfterMutation ==
    LET fresh == CASE resp.endpoint = "get_sag" -> get_sag_response(sager, resp.args[1])
                   [] resp.endpoint = "list_sager" ->
                        list_sager_response(sager, NULL, NULL, 1, 50)
                   [] resp.endpoint = "get_sag_haendelser" ->
                        get_sag_haendelser_response(sager, haendelser, resp.args[1])
                   [] OTHER -> [status_code |-> 0]
    IN  resp.endpoint \in {"get_sag", "list_sager", "get_sag_haendelser"} =>
            /\ resp.status_code = fresh.status_code
            /\ resp.status_code = 200 => resp.data = fresh.data

----------------------------------------------------------------------------
(* The status filter of the case list (list_sager), of the CSV and Excel   *)
(* exports and of the Separering dashboard, over the same table.           *)

(* The export's filter for active cases comparing the flags without the    *)
(* IS NULL alternatives.                                                   *)
export_sager_csv_filter_uden_null(s, faerdigmeldt) ==
    IF faerdigmeldt = NULL THEN T3
    ELSE IF faerdigmeldt = Val(0)
    THEN and_(<< SqlNe(s.FaerdigmeldtInt, Val(1)),
                 SqlNe(s.AfsluttetInt, Val(1)),
                 SqlNe(s.AfsluttetInt, Val(-1)) >>)
    ELSE IF faerdigmeldt = Val(-1)
    THEN or_(<< SqlEq(s.AfsluttetInt, Val(1)), SqlEq(s.AfsluttetInt, Val(-1)) >>)
    ELSE SqlEq(s.FaerdigmeldtInt, faerdigmeldt)

(* The status filter of export_sager_csv. *)
export_sager_csv_filter(s, faerdigmeldt) ==
    IF faerdigmeldt = NULL THEN T3
    ELSE IF faerdigmeldt = Val(0)
    THEN and_(<< or_(<< SqlNe(s.FaerdigmeldtInt, Val(1)), SqlIsNull(s.FaerdigmeldtInt) >>),
                 or_(<< SqlNe(s.AfsluttetInt, Val(1)), SqlIsNull(s.AfsluttetInt) >>),
                 or_(<< SqlNe(s.AfsluttetInt, Val(-1)), SqlIsNull(s.AfsluttetInt) >>) >>)
    ELSE IF faerdigmeldt = Val(-1)
    THEN or_(<< SqlEq(s.AfsluttetInt, Val(1)), SqlEq(s.AfsluttetInt, Val(-1)) >>)
    ELSE SqlEq(s.FaerdigmeldtInt, faerdigmeldt)

(* The status filter of export_sager_excel. *)
export_sager_excel_filter(s, faerdigmeldt) ==
    IF faerdigmeldt = NULL THEN T3
    ELSE IF faerdigmeldt = Val(0)
    THEN and_(<< or_(<< SqlNe(s.FaerdigmeldtInt, Val(1)), SqlIsNull(s.FaerdigmeldtInt) >>),
                 or_(<< SqlNe(s.AfsluttetInt, Val(1)), SqlIsNull(s.AfsluttetInt) >>),
                 or_(<< SqlNe(s.AfsluttetInt, Val(-1)), SqlIsNull(s.AfsluttetInt) >>) >>)
    ELSE IF faerdigmeldt = Val(-1)
    THEN or_(<< SqlEq(s.AfsluttetInt, Val(1)), SqlEq(s.AfsluttetInt, Val(-1)) >>)
    ELSE SqlEq(s.FaerdigmeldtInt, faerdigmeldt)

(* The values of the faerdigmeldt parameter: active, closed, another. *)
FaerdigmeldtParams == {Val(0), Val(-1), Val(1)}

(* The cases an export writes, by Id; query.all() has no ORDER BY, so the  *)
(* rows of the file are in no particular order.                            *)
export_sager_csv ==
    \E faerdigmeldt \in FaerdigmeldtParams :
        /\ resp' = [endpoint |-> "export_csv", status_code |-> 200,
                    faerdigmeldt |-> faerdigmeldt,
                    ids |-> {id \in DOMAIN sager :
                                export_sager_csv_filter(sager[id], faerdigmeldt) = T3}]
        /\ UNCHANGED <<sager, projekt_tabeller, cache_tabeller>>

export_sager_excel ==
    \E faerdigmeldt \in FaerdigmeldtParams :
        /\ resp' = [endpoint |-> "export_excel", status_code |-> 200,
                    faerdigmeldt |-> faerdigmeldt,
                    ids |-> {id \in DOMAIN sager :
                                export_sager_excel_filter(sager[id], faerdigmeldt) = T3}]
        /\ UNCHANGED <<sager, projekt_tabeller, cache_tabeller>>

(* Separering cases with every combination of the two status flags, and    *)
(* one open case of another type.                                          *)
ListeRows ==
    {Sag(Val("Separering"), f, a, NULL, NULL, NULL, NULL) : f \in FlagValues, a \in FlagValues}
    \cup {Sag(Val("Aaben Land"), Val(0), Val(0), NULL, NULL, NULL, NULL)}

InsertSagListe ==
    /\ Len(sager) < MaxSager
    /\ \E s \in ListeRows : sager' = Append(sager, s)
    /\ resp' = NoResp
    /\ UNCHANGED <<projekt_tabeller, cache_tabeller>>

NextListe ==
    \/ InsertSagListe
    \/ get_separering_stats
    \/ list_sager_med({Val(0)}, {Val("Separering")})

SpecListe == Init /\ [][NextListe]_vars

NextEksport == InsertSagListe \/ export_sager_csv \/ export_sager_excel

SpecEksport == Init /\ [][NextEksport]_vars

(* C22: the cases the Separering dashboard counts as active are exactly    *)
(* the cases the case list selects with faerdigmeldt = 0 among the         *)
(* Separering cases, for every combination of FaerdigmeldtInt and          *)
(* AfsluttetInt, NULL and -1 included.                                     *)
C22_DashboardActiveIsListActive ==
    (resp.endpoint = "list_sager" /\ resp.x_fastapi_cache = "MISS") =>
        {resp.data[n].Id : n \in DOMAIN resp.data}
            = {id \in DOMAIN sager : aktive_separering_sager_filter(sager[id]) = T3}

(* C23: for each value of the faerdigmeldt parameter the CSV and the Excel *)
(* export select a case exactly when the case list selects it, for every   *)
(* combination of FaerdigmeldtInt and AfsluttetInt, NULL included.         *)
C23_ExportSelectsAsList ==
    resp.endpoint \in {"export_csv", "export_excel"} =>
        resp.ids = list_sager_selected(sager, resp.faerdigmeldt, NULL)

(* An export of the active cases holds a case without finished-report flag *)
(* and leaves out a closed one.                                            *)
C23_Witness ==
    /\ resp.endpoint \in {"export_csv", "export_excel"}
    /\ resp.faerdigmeldt = Val(0)
    /\ \E id \in resp.ids : sager[id].FaerdigmeldtInt = NULL
    /\ \E id \in DOMAIN sager \ resp.ids : sager[id].AfsluttetInt = Val(-1)

----------------------------------------------------------------------------
(* GET /api/dashboard/recent-activity: get_recent_activity.  The events    *)
(* and the cases with a timestamp, each source ordered by timestamp        *)
(* descending and limited, then united, ordered and paged.  ORDER BY       *)
(* leaves the order of rows with equal timestamps open; every order the    *)
(* database may produce is a behaviour of the action.                      *)

(* One row of AMOHaendelser. *)
Haendelse(sags_id, dato, bemaerkning) ==
    [SagsID |-> sags_id, Dato |-> dato, Bemaerkning |-> bemaerkning, Skjul |-> NULL]

(* The selected columns of the two sources, for the rows with a timestamp. *)
events_select(events) ==
    { [ id |-> n, type |-> "haendelse", title |-> events[n].Bemaerkning,
        timestamp |-> events[n].Dato[1], project_id |-> events[n].SagsID,
        project_name |-> NULL ] : n \in {m \in DOMAIN events : events[m].Dato # NULL} }

cases_select(rows) ==
    { [ id |-> n, type |-> "sagsstatus", title |-> rows[n].Bemaerkning,
        timestamp |-> rows[n].OprettetDato[1], project_id |-> rows[n].ProjektID,
        project_name |-> NULL ] : n \in {m \in DOMAIN rows : rows[m].OprettetDato # NULL} }

(* ORDER BY timestamp DESC: the sequences that list the rows of S with no  *)
(* timestamp before a later one.                                           *)
RECURSIVE order_by_desc(_)
order_by_desc(S) ==
    IF S = {} THEN {<<>>}
    ELSE UNION { {<<x>> \o rest : rest \in order_by_desc(S \ {x})} :
                    x \in {y \in S : \A z \in S : z.timestamp <= y.timestamp} }

(* .limit(n).offset(k) *)
limit_offset(rows, n, k) == SubSeq(rows, k + 1, Min(k + n, Len(rows)))

(* The limit of each source with the offset left out. *)
source_limit_uden_offset(per_page, offset) == per_page

(* .limit(per_page + offset) *)
source_limit(per_page, offset) == per_page + offset

(* activity.title or "Ingen beskrivelse" *)
RecentActivityItem(activity) ==
    [activity EXCEPT !.title = IF activity.title \in {NULL, Val("")}
                               THEN Val("Ingen beskrivelse") ELSE activity.title]

Pages == {1, 2}

PerPages == {1, 2}

get_recent_activity ==
    \E page \in Pages, per_page \in PerPages :
        LET offset == (page - 1) * per_page
            n == source_limit(per_page, offset)
        IN  \E events_query \in order_by_desc(events_select(haendelser)),
               cases_query \in order_by_desc(cases_select(sager)) :
                LET combined_query ==
                        {limit_offset(events_query, n, 0)[k] :
                            k \in DOMAIN limit_offset(events_query, n, 0)}
                        \cup {limit_offset(cases_query, n, 0)[k] :
                                k \in DOMAIN limit_offset(cases_query, n, 0)}
                    total == IF page = 1 THEN per_page * 10
                             ELSE Cardinality(combined_query)
                IN  \E ordered \in order_by_desc(combined_query) :
                        LET activities == limit_offset(ordered, per_page, offset)
                        IN  /\ resp' =
                                [ endpoint |-> "recent_activity", success |-> TRUE,
                                  data |-> [k \in DOMAIN activities |->
                                                RecentActivityItem(activities[k])],
                                  pagination |->
                                    [ page |-> page, per_page |-> per_page,
                                      total |-> total,
                                      total_pages |-> (total + per_page - 1) \div per_page ] ]
                            /\ UNCHANGED <<sager, projekt_tabeller, cache_tabeller>>

(* Bound on the number of events. *)
MaxHaendelser == 2

(* Events and cases on day 10 or day 20 or without a timestamp, with and   *)
(* without a description.                                                  *)
InsertHaendelse ==
    /\ Len(haendelser) < MaxHaendelser
    /\ \E dato \in {NULL, Val(10), Val(20)} :
        haendelser' = Append(haendelser, Haendelse(Val(1), dato, NULL))
    /\ resp' = NoResp
    /\ UNCHANGED <<sager, projekt_tabeller, cache, clock, klient>>

InsertSagActivity ==
    /\ Len(sager) < MaxSager
    /\ \E oprettet \in {NULL, Val(10), Val(20)} :
        sager' = Append(sager, Sag(NULL, NULL, NULL, NULL, NULL, oprettet, NULL)
                                @@ [Bemaerkning |-> Val("sag"), ProjektID |-> Val(1)])
    /\ resp' = NoResp
    /\ UNCHANGED <<projekt_tabeller, cache_tabeller>>

NextActivity == InsertHaendelse \/ InsertSagActivity \/ get_recent_activity

SpecActivity == Init /\ [][NextActivity]_vars

----------------------------------------------------------------------------
(* BaseState.api_call of the Reflex client: the cache of GET responses     *)
(* with a time to live.  klient holds loading, error_message and           *)
(* _api_cache; clock is time.time() in seconds.  The value api_call        *)
(* returns is Val(json) for a response and NULL for None.                  *)

(* _cache_ttl: float = 300.0 *)
_cache_ttl == 300

(* f"{endpoint}?{params_str}", params_str empty for no parameters *)
_get_cache_key(endpoint, params) == <<endpoint, params>>

(* The expiry test with an entry of age _cache_ttl still valid. *)
_get_cached_response_til_og_med_ttl(api_cache, cache_key, current_time) ==
    IF cache_key \notin DOMAIN api_cache
    THEN [value |-> NULL, api_cache |-> api_cache]
    ELSE IF current_time - api_cache[cache_key].timestamp <= _cache_ttl
         THEN [value |-> api_cache[cache_key].data, api_cache |-> api_cache]
         ELSE [ value |-> NULL,
                api_cache |-> [k \in DOMAIN api_cache \ {cache_key} |-> api_cache[k]] ]

(* The value returned and the cache left behind. *)
_get_cached_response(api_cache, cache_key, current_time) ==
    IF cache_key \notin DOMAIN api_cache
    THEN [value |-> NULL, api_cache |-> api_cache]
    ELSE IF current_time - api_cache[cache_key].timestamp < _cache_ttl
         THEN [value |-> api_cache[cache_key].data, api_cache |-> api_cache]
         ELSE [ value |-> NULL,
                api_cache |-> [k \in DOMAIN api_cache \ {cache_key} |-> api_cache[k]] ]

_set_cached_response(api_cache, cache_key, data, current_time) ==
    (cache_key :> [data |-> data, timestamp |-> current_time])
        @@ [k \in DOMAIN api_cache \ {cache_key} |-> api_cache[k]]

(* What the request meets: a 2xx answer with a JSON object, an answer with *)
(* an error status, no answer in time.                                     *)
Outcomes ==
    { [kind |-> "ok", json |-> [success |-> TRUE, data |-> v]] : v \in {1, 2} }
    \cup { [kind |-> "HTTPStatusError"], [kind |-> "TimeoutException"] }

ApiEndpoints == {"/api/dashboard/stats"}

ApiParams == {NULL, Val([page |-> 1])}

ApiMethods == {"GET", "get", "POST"}

upper(method) == IF method = "get" THEN "GET" ELSE method

api_call ==
    \E endpoint \in ApiEndpoints, method \in ApiMethods, params \in ApiParams,
       use_cache \in BOOLEAN, raise_on_error \in BOOLEAN, outcome \in Outcomes :
        LET cacheable == upper(method) = "GET" /\ use_cache
            cache_key == _get_cache_key(endpoint, params)
            looked_up == IF cacheable
                         THEN _get_cached_response(klient.api_cache, cache_key, clock)
                         ELSE [value |-> NULL, api_cache |-> klient.api_cache]
            call == [ endpoint |-> "api_call", api_endpoint |-> endpoint,
                      method |-> method, params |-> params, use_cache |-> use_cache ]
        IN  /\ IF cacheable /\ looked_up.value # NULL
               THEN /\ resp' = call @@ [ result |-> looked_up.value, raised |-> FALSE,
                                         request_issued |-> FALSE ]
                    /\ klient' = [klient EXCEPT !.api_cache = looked_up.api_cache]
               ELSE IF outcome.kind = "ok"
               THEN /\ resp' = call @@ [ result |-> Val(outcome.json), raised |-> FALSE,
                                         request_issued |-> TRUE ]
                    /\ klient' =
                        [ loading |-> FALSE, error_message |-> NULL,
                          api_cache |-> IF cacheable
                                        THEN _set_cached_response(looked_up.api_cache,
                                                cache_key, Val(outcome.json), clock)
                                        ELSE looked_up.api_cache ]
               ELSE /\ resp' = call @@ [ result |-> NULL, raised |-> raise_on_error,
                                         request_issued |-> TRUE ]
                    /\ klient' = [ loading |-> FALSE, error_message |-> Val(outcome.kind),
                                   api_cache |-> looked_up.api_cache ]
            /\ UNCHANGED <<sager, projekt_tabeller, haendelser, cache, clock>>

NextKlient == api_call \/ tick({150, 151})

SpecKlient == Init /\ [][NextKlient]_vars

(* C25: a GET with use_cache answers from the cache, without a request,    *)
(* exactly when the cache holds an entry for the endpoint and parameters   *)
(* whose age is below the time to live, and then it returns the stored     *)
(* response; an entry of age at least the time to live is gone after the   *)
(* call unless the new request has stored its answer with the time of the  *)
(* call, and the request is issued; a request that fails leaves no entry   *)
(* for the key that was not there before.                                  *)
C25_CachedExactlyWhenFresh ==
    [][ ( /\ resp'.endpoint = "api_call"
          /\ clock' = clock
          /\ upper(resp'.method) = "GET"
          /\ resp'.use_cache ) =>
        LET key == <<resp'.api_endpoint, resp'.params>>
            stored == key \in DOMAIN klient.api_cache
            fresh == stored /\ clock - klient.api_cache[key].timestamp < _cache_ttl
            failed == resp'.request_issued /\ resp'.result = NULL
        IN  /\ fresh <=> ~resp'.request_issued
            /\ fresh => /\ resp'.result = klient.api_cache[key].data
                        /\ klient' = klient
            /\ (stored /\ ~fresh) =>
                    \/ key \notin DOMAIN klient'.api_cache
                    \/ klient'.api_cache[key].timestamp = clock
            /\ failed => /\ key \notin DOMAIN klient'.api_cache
                         /\ \A k \in DOMAIN klient'.api_cache :
                                k \in DOMAIN klient.api_cache
                                /\ klient'.api_cache[k] = klient.api_cache[k]
      ]_vars

(* A request has failed on an entry of age exactly the time to live, and   *)
(* the entry is gone.                                                      *)
C25_Witness ==
    /\ resp.endpoint = "api_call"
    /\ resp.method = "GET" /\ resp.use_cache
    /\ resp.request_issued /\ resp.result = NULL
    /\ clock = _cache_ttl
    /\ <<resp.api_endpoint, resp.params>> \notin DOMAIN klient.api_cache
    /\ \E k \in DOMAIN klient.api_cache : klient.api_cache[k].timestamp = 0

====
